---- MODULE Spec2Model ----
(***************************************************************************)
(* TLA+ model of the tlvflow domain core: the vehicle maintenance policy,  *)
(* station docking, the user / ride lifecycle, password hashing and        *)
(* verification, the Pro licence check and the nearest-station query.      *)
(*                                                                         *)
(* Each component has its own specification (SpecVehicle, SpecStation, ...)*)
(* over its own variables; the variables of the other components stay at   *)
(* their idle values.  Every call records its arguments, the state before  *)
(* the call and its outcome in the component's *_last variable.            *)
(***************************************************************************)
EXTENDS Integers, Naturals, Sequences, FiniteSets, TLC

VARIABLES
    vehicle,    \* the Vehicle object under test (models.py Vehicle/Bike/EBike/Scooter)
    v_last,     \* the last vehicle call: op, arguments, state before, outcome
    station,    \* the Station object (stations.py)
    st_last,    \* the last station call
    st_prev,    \* the call on the built station before the last one
    user,       \* the User object's ride tracking (users.py)
    u_last,     \* the last call on the user
    rep_last,   \* the last report_vehicle_issue call: its arguments and its payload
    snapshot,   \* the object the last view_ride_history call returned
    viewed,     \* the ride history as it was when that call returned
    ended,      \* the rides of the end_ride calls that returned normally, in call order
    pw_hash,    \* the stored password hash of the user under test
    pw_last,    \* the last hashing / verification / login call
    pro,        \* the ProUser's licence fields
    now,        \* the wall clock read by datetime.now(UTC)
    lic_last,   \* the last validate_license / can_rent call
    repo,       \* the StationRepository's dict, in insertion order
    nr_last,    \* the last find_nearest_station call
    first_seen, \* the station ids in the order of their first add since the last clear
    app,        \* app.state.station_repository of the FastAPI application
    http_last,  \* the last GET /stations/nearest request and its response
    csv_last,   \* the last CSV loader call: the file and what the loader returned
    reg_last,   \* the last ProUser.register call: its arguments and its outcome
    store,      \* a VehicleRepository or StationRepository: its class and its dict
    added,      \* the entities put into the store since it was last cleared, in order
    store_last, \* the last call on the store and what it returned
    the_ride,   \* a Ride object
    ride_last,  \* the last call on the ride
    calls,      \* the dock calls in flight on the station: where each one stands
    twin        \* a users.User and a models.User given the same calls

vars == <<vehicle, v_last, station, st_last, st_prev, user, u_last, rep_last, snapshot, viewed,
          ended, pw_hash, pw_last,
          pro, now, lic_last, repo, nr_last, first_seen, app, http_last,
          csv_last, reg_last, store, added, store_last, the_ride, ride_last, calls, twin>>

vehicleVars == <<vehicle, v_last>>
stationVars == <<station, st_last, st_prev>>
userVars    == <<user, u_last, rep_last, snapshot, viewed, ended>>
pwVars      == <<pw_hash, pw_last>>
licVars     == <<pro, now, lic_last>>
repoVars    == <<repo, nr_last, first_seen>>
apiVars     == <<app, http_last>>

csvVars     == <<csv_last>>
regVars     == <<reg_last>>
storeVars   == <<store, added, store_last>>
rideVars    == <<the_ride, ride_last>>
raceVars    == <<calls>>
twinVars    == <<twin>>
lateVars    == <<rideVars, raceVars, twinVars>>

\* The components added after the domain core.
extVars == <<apiVars, csvVars, regVars, storeVars, lateVars>>

\* What an action of one component leaves alone: the other components.
otherVehicleVars == <<stationVars, userVars, pwVars, licVars, repoVars, extVars>>
otherStationVars == <<vehicleVars, userVars, pwVars, licVars, repoVars, extVars>>
otherUserVars    == <<vehicleVars, stationVars, pwVars, licVars, repoVars, extVars>>
otherPwVars      == <<vehicleVars, stationVars, userVars, licVars, repoVars, extVars>>
otherLicVars     == <<vehicleVars, stationVars, userVars, pwVars, repoVars, extVars>>
otherRepoVars    == <<vehicleVars, stationVars, userVars, pwVars, licVars, extVars>>
coreVars         == <<vehicleVars, stationVars, userVars, pwVars, licVars, repoVars>>
otherApiVars     == <<coreVars, csvVars, regVars, storeVars, lateVars>>
otherCsvVars     == <<coreVars, apiVars, regVars, storeVars, lateVars>>
otherRegVars     == <<coreVars, apiVars, csvVars, storeVars, lateVars>>
otherStoreVars   == <<coreVars, apiVars, csvVars, regVars, lateVars>>
otherRideVars    == <<coreVars, apiVars, csvVars, regVars, storeVars, raceVars, twinVars>>
otherTwinVars    == <<coreVars, apiVars, csvVars, regVars, storeVars, rideVars, raceVars>>
otherRaceVars    == <<st_last, st_prev, vehicleVars, userVars, pwVars, licVars, repoVars,
                      apiVars, csvVars, regVars, storeVars, rideVars, twinVars>>

(***************************************************************************)
(* Python helpers                                                          *)
(***************************************************************************)
Max(a, b) == IF a >= b THEN a ELSE b
Min(a, b) == IF a <= b THEN a ELSE b

\* All sequences over S of length 0..n.
SeqsUpTo(S, n) == UNION {[1..k -> S] : k \in 0..n}

(***************************************************************************)
(* 1. Vehicles and the maintenance policy (domain/models.py)               *)
(***************************************************************************)

\* ---- bounds of the vehicle component
MaxRides    == 12   \* ride_count is driven up to this value
MaxReports  == 2    \* longest report list passed to check_maintenance_needed

\* ---- program constants
MaintenanceInterval == 10   \* rides_since_maintenance >= 10
LowBattery          == 20   \* battery_level < 20
BatteryMin          == 0
BatteryMax          == 100

VehicleIds   == {"V1", "V2"}
VehicleKinds == {"Bike", "EBike", "Scooter"}
\* battery_level arguments tried: both sides of each threshold and of the range
BatteryArgs  == {-1, 0, 19, 20, 100, 101}
\* rides_since_last_treated values found in a CSV row
RidesSinceArgs == {-1, 0, 9, 10}

NoVehicle == [kind |-> "none"]

\* A report object: one with a _vehicle_id attribute, or one without it
\* (tests/test_vehicles.py _Report and _ReportWithoutVehicleId).
Reports == {[vehicle_id |-> i] : i \in VehicleIds} \cup {[some_other_field |-> "x"]}

\* The reports argument: None, or a list of report objects.
NoneReports == [is_none |-> TRUE, items |-> <<>>]
ReportsArgs == {NoneReports} \cup
               {[is_none |-> FALSE, items |-> s] : s \in SeqsUpTo(Reports, MaxReports)}

\* Python truthiness of the reports argument: None and [] are falsy.
Truthy(reports) == ~reports.is_none /\ Len(reports.items) > 0

\* hasattr(report, "_vehicle_id")
HasVehicleId(report) == "vehicle_id" \in DOMAIN report

\* Vehicle.__init__
\* (status takes the constructor's default, VehicleStatus.AVAILABLE; no
\* method of the class assigns it afterwards)
Vehicle_init(kind, vehicle_id) ==
    [kind |-> kind, vehicle_id |-> vehicle_id, status |-> "available",
     ride_count |-> 0, has_helmet |-> FALSE, last_maintenance_ride_count |-> 0]

\* Bike.__init__
Bike_init(vehicle_id) == Vehicle_init("Bike", vehicle_id)

\* EBike.__init__ / Scooter.__init__: the range check, then the field.
BatteryRejected(battery_level) ==
    ~(BatteryMin <= battery_level /\ battery_level <= BatteryMax)

Electric_init(kind, vehicle_id, battery_level) ==
    [f \in DOMAIN Vehicle_init(kind, vehicle_id) \cup {"battery_level"} |->
        IF f = "battery_level" THEN battery_level
        ELSE Vehicle_init(kind, vehicle_id)[f]]

\* Vehicle.check_maintenance_needed
RidesThresholdMutant(self) ==
    self.ride_count - self.last_maintenance_ride_count > MaintenanceInterval

RidesThreshold(self) ==
    self.ride_count - self.last_maintenance_ride_count >= MaintenanceInterval

Vehicle_check_maintenance_needed(self, reports) ==
    IF RidesThreshold(self) THEN TRUE
    ELSE IF Truthy(reports)
         THEN \E i \in 1..Len(reports.items) :
                 /\ HasVehicleId(reports.items[i])
                 /\ reports.items[i].vehicle_id = self.vehicle_id
         ELSE FALSE

\* Bike.check_maintenance_needed
Bike_check_maintenance_needed(self, reports) ==
    Vehicle_check_maintenance_needed(self, reports)

\* EBike.check_maintenance_needed
EBike_check_maintenance_needed(self, reports) ==
    Vehicle_check_maintenance_needed(self, reports) \/ self.battery_level < LowBattery

\* Scooter.check_maintenance_needed
Scooter_check_maintenance_needed(self, reports) ==
    Vehicle_check_maintenance_needed(self, reports) \/ self.battery_level < LowBattery

\* Dynamic dispatch on the vehicle's class.
check_maintenance_needed(self, reports) ==
    CASE self.kind = "Bike"    -> Bike_check_maintenance_needed(self, reports)
      [] self.kind = "EBike"   -> EBike_check_maintenance_needed(self, reports)
      [] self.kind = "Scooter" -> Scooter_check_maintenance_needed(self, reports)

\* Vehicle.complete_maintenance
complete_maintenance_mutant(self) ==
    [self EXCEPT !.last_maintenance_ride_count =
                     self.last_maintenance_ride_count + MaintenanceInterval]

complete_maintenance_resets(self) ==
    [self EXCEPT !.last_maintenance_ride_count = 0, !.ride_count = 0]

complete_maintenance(self) ==
    [self EXCEPT !.last_maintenance_ride_count = self.ride_count]

VLast(op, reports, pre, ret, raised) ==
    [op |-> op, reports |-> reports, pre |-> pre, ret |-> ret, raised |-> raised]

VehicleInit ==
    /\ vehicle = NoVehicle
    /\ v_last = VLast("none", NoneReports, NoVehicle, FALSE, FALSE)

\* Direct construction: Bike(...), EBike(...), Scooter(...).
ConstructVehicle ==
    /\ vehicle = NoVehicle
    /\ \E kind \in VehicleKinds, id \in VehicleIds, battery_level \in BatteryArgs :
        IF kind = "Bike"
        THEN /\ battery_level = BatteryMax   \* a Bike takes no battery argument
             /\ vehicle' = Bike_init(id)
             /\ v_last' = VLast("construct", NoneReports, vehicle, FALSE, FALSE)
        ELSE IF BatteryRejected(battery_level)
        THEN /\ vehicle' = vehicle
             /\ v_last' = VLast("construct", NoneReports, vehicle, FALSE, TRUE)
        ELSE /\ vehicle' = Electric_init(kind, id, battery_level)
             /\ v_last' = VLast("construct", NoneReports, vehicle, FALSE, FALSE)
    /\ UNCHANGED otherVehicleVars

\* One valid CSV row turned into a vehicle (loaders.py lines 106-135): the
\* battery is clamped, ride_count takes rides_since_last_treated and the
\* maintenance baseline is zero.
LoadVehicleRow ==
    /\ vehicle = NoVehicle
    /\ \E kind \in VehicleKinds, id \in VehicleIds, battery_level \in BatteryArgs,
          rides_since \in RidesSinceArgs :
        LET built == IF kind = "Bike" THEN Bike_init(id)
                     ELSE Electric_init(kind, id,
                              Max(BatteryMin, Min(BatteryMax, battery_level)))
        IN /\ kind = "Bike" => battery_level = BatteryMax
           /\ vehicle' = [built EXCEPT !.ride_count = rides_since,
                                       !.last_maintenance_ride_count = 0]
           /\ v_last' = VLast("load", NoneReports, vehicle, FALSE, FALSE)
    /\ UNCHANGED otherVehicleVars

\* A caller counts one more ride on the public ride_count attribute.
TakeRide ==
    /\ vehicle # NoVehicle
    /\ vehicle.ride_count < MaxRides
    /\ vehicle' = [vehicle EXCEPT !.ride_count = @ + 1]
    /\ v_last' = VLast("ride", NoneReports, vehicle, FALSE, FALSE)
    /\ UNCHANGED otherVehicleVars

CheckMaintenance ==
    /\ vehicle # NoVehicle
    /\ \E reports \in ReportsArgs :
        /\ vehicle' = vehicle
        /\ v_last' = VLast("check", reports, vehicle,
                           check_maintenance_needed(vehicle, reports), FALSE)
    /\ UNCHANGED otherVehicleVars

CompleteMaintenance ==
    /\ vehicle # NoVehicle
    /\ vehicle' = complete_maintenance(vehicle)
    /\ v_last' = VLast("complete_maintenance", NoneReports, vehicle, FALSE, FALSE)
    /\ UNCHANGED otherVehicleVars

VehicleNext ==
    \/ ConstructVehicle
    \/ LoadVehicleRow
    \/ TakeRide
    \/ CheckMaintenance
    \/ CompleteMaintenance

(***************************************************************************)
(* 2. Stations: capacity and docking (domain/stations.py)                  *)
(***************************************************************************)

\* ---- bounds of the station component
MaxCapacity == 3    \* largest capacity argument tried
MaxInitial  == 4    \* longest initial vehicles list tried (one above MaxCapacity)

\* Vehicle objects that may be docked; list.remove compares them by identity
\* (Vehicle defines no __eq__).
DockVehicles == {"V1", "V2", "V3"}

NoStation == [built |-> FALSE, capacity |-> 0, vehicles |-> <<>>]

\* Station._validate_capacity
CapacityRejected(capacity) == capacity <= 0

\* Station.available_slots
available_slots_mutant(self) == self.capacity

available_slots(self) == self.capacity - Len(self.vehicles)

\* Station.is_full
is_full_mutant(self) == available_slots(self) < 0

is_full(self) == available_slots(self) = 0

\* Station.is_empty
is_empty(self) == Len(self.vehicles) = 0

\* list.remove(x): drops the first item equal to x.
RECURSIVE IndexOf(_, _, _)
IndexOf(s, x, i) ==
    IF i > Len(s) THEN 0
    ELSE IF s[i] = x THEN i
    ELSE IndexOf(s, x, i + 1)

RemoveAt(s, i) == SubSeq(s, 1, i - 1) \o SubSeq(s, i + 1, Len(s))

ListRemoveMutant(s, x) == Tail(s)

ListRemove(s, x) == RemoveAt(s, IndexOf(s, x, 1))

Contains(s, x) == \E i \in 1..Len(s) : s[i] = x

StLast(op, capacity, arg, vehicle_arg, pre, raised) ==
    [op |-> op, capacity |-> capacity, arg |-> arg, vehicle |-> vehicle_arg,
     pre |-> pre, raised |-> raised]

StationInit ==
    /\ station = NoStation
    /\ st_last = StLast("none", 0, <<>>, "V1", NoStation, FALSE)
    /\ st_prev = StLast("none", 0, <<>>, "V1", NoStation, FALSE)

\* Station.__init__ (the other fields are taken as valid)
ConstructStation ==
    /\ ~station.built
    /\ \E capacity \in 0..MaxCapacity, vs \in SeqsUpTo(DockVehicles, MaxInitial) :
        LET vehicles == IF Len(vs) > 0 THEN vs ELSE <<>>
            raises == CapacityRejected(capacity) \/ Len(vehicles) > capacity
        IN /\ station' = IF raises THEN station
                         ELSE [built |-> TRUE, capacity |-> capacity,
                               vehicles |-> vehicles]
           /\ st_last' = StLast("construct", capacity, vs, "V1", station, raises)
    /\ st_prev' = StLast("none", 0, <<>>, "V1", NoStation, FALSE)
    /\ UNCHANGED otherStationVars

\* Station.dock
Dock ==
    /\ station.built
    /\ \E v \in DockVehicles :
        /\ station' = IF is_full(station) THEN station
                      ELSE [station EXCEPT !.vehicles = Append(@, v)]
        /\ st_last' = StLast("dock", station.capacity, <<>>, v, station,
                             is_full(station))
    /\ st_prev' = st_last
    /\ UNCHANGED otherStationVars

\* Station.undock
Undock ==
    /\ station.built
    /\ \E v \in DockVehicles :
        /\ station' = IF Contains(station.vehicles, v)
                      THEN [station EXCEPT !.vehicles = ListRemove(@, v)]
                      ELSE station
        /\ st_last' = StLast("undock", station.capacity, <<>>, v, station,
                             ~Contains(station.vehicles, v))
    /\ st_prev' = st_last
    /\ UNCHANGED otherStationVars

StationNext ==
    \/ ConstructStation
    \/ Dock
    \/ Undock

(***************************************************************************)
(* 3. The user's ride lifecycle (domain/users.py)                          *)
(***************************************************************************)

\* ---- bound of the user component
MaxHistory == 3     \* rides are started while the history is shorter than this

\* Ride arguments are arbitrary objects (Any): oid is the object's identity,
\* ride_id its content.  Objects 1 and 2 are equal in content but not identical.
NoneRide == [oid |-> 0, ride_id |-> "None"]
RideObjects == {[oid |-> 1, ride_id |-> "r1"], [oid |-> 2, ride_id |-> "r1"],
                [oid |-> 3, ride_id |-> "r2"]}
RideArgs == RideObjects \cup {NoneRide}

\* Python's "is" / "is not"
IsMutant(a, b) == a.ride_id = b.ride_id

Is(a, b) == a.oid = b.oid

\* An optional str value: None, or a string (a sequence of characters).
NoneCell == [none |-> TRUE, text |-> <<>>]
Cell(text) == [none |-> FALSE, text |-> text]

\* User.__init__ lines 54-55
User_init == [ride_history |-> <<>>, current_ride |-> NoneRide]

ULast(op, ride, pre, raised) ==
    [op |-> op, ride |-> ride, pre |-> pre, raised |-> raised]

\* ---- the arguments of report_vehicle_issue tried
RideIdArgs      == {NoneCell, Cell(<<>>), Cell(<<"r", "1">>)}
VehicleIdArgs   == {NoneCell, Cell(<<>>), Cell(<<" ">>)}
ImageUrlArgs    == {NoneCell, Cell(<<>>), Cell(<<"h", "t", "t", "p", ":", "/", "/", "i">>)}
DescriptionArgs == {Cell(<<>>), Cell(<<"f", "l", "a", "t">>)}

\* "not x" on an optional str: None and the empty string are falsy
Falsy(cell) == cell.none \/ Len(cell.text) = 0

\* User.report_vehicle_issue: TRUE when it raises ValueError
ReportVehicleIssueRaises(ride_id, vehicle_id) == Falsy(ride_id) \/ Falsy(vehicle_id)

\* User.report_vehicle_issue: the payload, a dict from keys to strings
report_vehicle_issue_mutant(ride_id, vehicle_id, image_url, description) ==
    [k \in {"ride_id", "vehicle_id", "description"}
            \cup (IF ~Falsy(image_url) THEN {"image_url"} ELSE {}) |->
        CASE k = "ride_id" -> ride_id.text
          [] k = "vehicle_id" -> vehicle_id.text
          [] k = "image_url" -> image_url.text
          [] k = "description" -> description.text]

report_vehicle_issue(ride_id, vehicle_id, image_url, description) ==
    [k \in {"ride_id", "vehicle_id"}
            \cup (IF ~Falsy(image_url) THEN {"image_url"} ELSE {})
            \cup (IF ~Falsy(description) THEN {"description"} ELSE {}) |->
        CASE k = "ride_id" -> ride_id.text
          [] k = "vehicle_id" -> vehicle_id.text
          [] k = "image_url" -> image_url.text
          [] k = "description" -> description.text]

NoPayload == [k \in {} |-> <<>>]

RepLast(ride_id, vehicle_id, image_url, description, payload) ==
    [ride_id |-> ride_id, vehicle_id |-> vehicle_id, image_url |-> image_url,
     description |-> description, payload |-> payload]

NoReportCall == RepLast(NoneCell, NoneCell, NoneCell, Cell(<<>>), NoPayload)

\* What view_ride_history returns is an object of its own (tuple(...), a
\* copy) or the user's list itself; an object that is the list shows whatever
\* the list holds when it is looked at.
NoSnapshot == [taken |-> FALSE, ref |-> "copy", items |-> <<>>]

\* User.view_ride_history
view_ride_history_alias(self) ==
    [taken |-> TRUE, ref |-> "list", items |-> <<>>]

view_ride_history(self) ==
    [taken |-> TRUE, ref |-> "copy", items |-> self.ride_history]

\* The content of a returned history object, read now.
Observed(object) ==
    IF object.ref = "list" THEN user.ride_history ELSE object.items

UserInit ==
    /\ user = User_init
    /\ u_last = ULast("none", NoneRide, User_init, FALSE)
    /\ rep_last = NoReportCall
    /\ snapshot = NoSnapshot
    /\ viewed = <<>>
    /\ ended = <<>>

\* User.start_ride
StartRideRaises(self, ride) == ~Is(self.current_ride, NoneRide)

start_ride(self, ride) == [self EXCEPT !.current_ride = ride]

StartRide ==
    /\ Len(user.ride_history) < MaxHistory
    /\ \E ride \in RideArgs :
        /\ user' = IF StartRideRaises(user, ride) THEN user
                   ELSE start_ride(user, ride)
        /\ u_last' = ULast("start_ride", ride, user, StartRideRaises(user, ride))
    /\ rep_last' = NoReportCall
    /\ UNCHANGED <<snapshot, viewed, ended>>
    /\ UNCHANGED otherUserVars

\* User.end_ride
EndRideRaisesMutant(self, ride) == Is(self.current_ride, NoneRide)

EndRideRaises(self, ride) ==
    \/ Is(self.current_ride, NoneRide)
    \/ ~Is(ride, self.current_ride)

end_ride(self, ride) ==
    [self EXCEPT !.ride_history = Append(@, ride), !.current_ride = NoneRide]

EndRide ==
    /\ \E ride \in RideArgs :
           /\ user' = IF EndRideRaises(user, ride) THEN user
                      ELSE end_ride(user, ride)
           /\ u_last' = ULast("end_ride", ride, user, EndRideRaises(user, ride))
           /\ ended' = IF EndRideRaises(user, ride) THEN ended
                       ELSE ended \o <<ride>>
    /\ rep_last' = NoReportCall
    /\ UNCHANGED <<snapshot, viewed>>
    /\ UNCHANGED otherUserVars

\* User.report_vehicle_issue
ReportVehicleIssue ==
    /\ \E ride_id \in RideIdArgs, vehicle_id \in VehicleIdArgs,
          image_url \in ImageUrlArgs, description \in DescriptionArgs :
           /\ user' = user
           /\ u_last' = ULast("report_vehicle_issue", NoneRide, user,
                              ReportVehicleIssueRaises(ride_id, vehicle_id))
           /\ rep_last' =
                 RepLast(ride_id, vehicle_id, image_url, description,
                         IF ReportVehicleIssueRaises(ride_id, vehicle_id)
                         THEN NoPayload
                         ELSE report_vehicle_issue(ride_id, vehicle_id, image_url,
                                                   description))
    /\ UNCHANGED <<snapshot, viewed, ended>>
    /\ UNCHANGED otherUserVars

\* User.view_ride_history called; the caller keeps what it returned.
ViewRideHistory ==
    /\ user' = user
    /\ u_last' = ULast("view_ride_history", NoneRide, user, FALSE)
    /\ snapshot' = view_ride_history(user)
    /\ viewed' = user.ride_history
    /\ rep_last' = NoReportCall
    /\ UNCHANGED ended
    /\ UNCHANGED otherUserVars

UserNext ==
    \/ StartRide
    \/ EndRide
    \/ ReportVehicleIssue
    \/ ViewRideHistory

(***************************************************************************)
(* 4. Password hashing and verification (domain/users.py)                  *)
(*                                                                         *)
(* A Python str is a sequence of one-character strings, bytes a sequence   *)
(* of numbers 0..255.                                                      *)
(***************************************************************************)

\* ---- program constants (User class attributes)
PWD_ALGO       == <<"p", "b", "k", "d", "f", "2", "_", "s", "h", "a", "2", "5", "6">>
PWD_ITERATIONS == 210000
SALT_BYTES     == 16
DKLEN          == 32
MinPasswordLen == 8

Digits == <<"0", "1", "2", "3", "4", "5", "6", "7", "8", "9">>

\* The URL-safe base64 alphabet written by base64.urlsafe_b64encode.
B64Alphabet ==
    <<"A", "B", "C", "D", "E", "F", "G", "H", "I", "J", "K", "L", "M", "N", "O", "P">> \o
    <<"Q", "R", "S", "T", "U", "V", "W", "X", "Y", "Z", "a", "b", "c", "d", "e", "f">> \o
    <<"g", "h", "i", "j", "k", "l", "m", "n", "o", "p", "q", "r", "s", "t", "u", "v">> \o
    <<"w", "x", "y", "z", "0", "1", "2", "3", "4", "5", "6", "7", "8", "9", "-", "_">>

\* The k-th smallest element of a set of numbers.
KthSmallest(S, k) == CHOOSE i \in S : Cardinality({j \in S : j < i}) = k - 1

\* str.rstrip(ch) / str.lstrip(ch) / str.strip()
RStrip(s, ch) ==
    SubSeq(s, 1, Len(s) - Cardinality({k \in 1..Len(s) :
                                         \A j \in (Len(s) - k + 1)..Len(s) : s[j] = ch}))

LStrip(s, ch) ==
    SubSeq(s, 1 + Cardinality({k \in 1..Len(s) : \A j \in 1..k : s[j] = ch}), Len(s))

Strip(s) == LStrip(RStrip(s, " "), " ")

\* str.split(sep, maxsplit): maxsplit = -1 splits at every separator.
Split(s, sep, maxsplit) ==
    LET pos == {i \in 1..Len(s) : s[i] = sep}
        nsplit == IF maxsplit < 0 THEN Cardinality(pos)
                  ELSE Min(maxsplit, Cardinality(pos))
        first(k) == IF k = 1 THEN 1 ELSE KthSmallest(pos, k - 1) + 1
        last(k) == IF k = nsplit + 1 THEN Len(s) ELSE KthSmallest(pos, k) - 1
    IN [k \in 1..(nsplit + 1) |-> SubSeq(s, first(k), last(k))]

RECURSIVE Join(_, _)
Join(parts, sep) ==
    IF Len(parts) = 0 THEN <<>>
    ELSE IF Len(parts) = 1 THEN parts[1]
    ELSE parts[1] \o <<sep>> \o Join(Tail(parts), sep)

\* int(s) for an optional sign followed by decimal digits; anything else is a
\* ValueError (ok = FALSE).
DigitValue(c) == (CHOOSE i \in 1..Len(Digits) : Digits[i] = c) - 1
IsDigit(c) == \E i \in 1..Len(Digits) : Digits[i] = c

RECURSIVE DigitsValue(_, _)
DigitsValue(s, acc) ==
    IF Len(s) = 0 THEN acc ELSE DigitsValue(Tail(s), acc * Len(Digits) + DigitValue(s[1]))

ParseInt(s) ==
    LET signed == Len(s) > 0 /\ s[1] \in {"-", "+"}
        body == IF signed THEN Tail(s) ELSE s
        ok == Len(body) > 0 /\ \A i \in 1..Len(body) : IsDigit(body[i])
    IN [ok |-> ok,
        value |-> IF ~ok THEN 0
                  ELSE IF signed /\ s[1] = "-" THEN 0 - DigitsValue(body, 0)
                  ELSE DigitsValue(body, 0)]

\* str(n) for n >= 0
RECURSIVE IntToStr(_)
IntToStr(n) ==
    IF n < Len(Digits) THEN <<Digits[n + 1]>>
    ELSE IntToStr(n \div Len(Digits)) \o <<Digits[(n % Len(Digits)) + 1]>>

\* base64.urlsafe_b64encode: each group of three bytes gives four characters,
\* a short last group is filled with "=".
B64Encode(b) ==
    LET byte(i) == IF i <= Len(b) THEN b[i] ELSE 0
        char(j) ==
            LET g == (j - 1) \div 4
                k == (j - 1) % 4
                b1 == byte(3 * g + 1)
                b2 == byte(3 * g + 2)
                b3 == byte(3 * g + 3)
            IN IF 3 * g + k > Len(b) THEN "="
               ELSE CASE k = 0 -> B64Alphabet[(b1 \div 4) + 1]
                      [] k = 1 -> B64Alphabet[((b1 % 4) * 16 + b2 \div 16) + 1]
                      [] k = 2 -> B64Alphabet[((b2 % 16) * 4 + b3 \div 64) + 1]
                      [] k = 3 -> B64Alphabet[(b3 % 64) + 1]
    IN [j \in 1..(4 * ((Len(b) + 2) \div 3)) |-> char(j)]

\* The value of a character for base64.urlsafe_b64decode: "-" and "_" are
\* translated to "+" and "/", which are accepted as well; 64 marks a character
\* outside the alphabet.
B64Index(c) ==
    IF \E i \in 1..Len(B64Alphabet) : B64Alphabet[i] = c
    THEN (CHOOSE i \in 1..Len(B64Alphabet) : B64Alphabet[i] = c) - 1
    ELSE IF c = "+" THEN 62
    ELSE IF c = "/" THEN 63
    ELSE 64

\* binascii.a2b_base64 in its default non-strict mode.  Characters outside
\* the alphabet are skipped.  A "=" met when the data characters read so far
\* leave a group of two or three open counts as padding, and the parse ends
\* (ignoring the rest) at the "=" that completes the group.  Otherwise all of
\* the input is read and an open group at the end is an error (ok = FALSE).
B64Decode(s) ==
    LET isData(i) == s[i] # "=" /\ B64Index(s[i]) < 64
        dataBefore(i) == {j \in 1..(i - 1) : isData(j)}
        quad_pos(i) == Cardinality(dataBefore(i)) % 4
        pads(i) == Cardinality({j \in 1..i : s[j] = "=" /\
                                   \A d \in dataBefore(i) : d < j})
        doneAt == {i \in 1..Len(s) :
                      s[i] = "=" /\ quad_pos(i) >= 2 /\ quad_pos(i) + pads(i) >= 4}
        stop == IF doneAt = {} THEN Len(s) + 1 ELSE KthSmallest(doneAt, 1)
        data == dataBefore(stop)
        m == Cardinality(data)
        d(k) == B64Index(s[KthSmallest(data, k)])
        nbytes == (m \div 4) * 3 + (IF m % 4 = 0 THEN 0 ELSE (m % 4) - 1)
        byte(j) ==
            LET g == (j - 1) \div 3
                k == (j - 1) % 3
            IN CASE k = 0 -> d(4 * g + 1) * 4 + d(4 * g + 2) \div 16
                 [] k = 1 -> (d(4 * g + 2) % 16) * 16 + d(4 * g + 3) \div 4
                 [] k = 2 -> (d(4 * g + 3) % 4) * 64 + d(4 * g + 4)
        ok == doneAt # {} \/ m % 4 = 0
    IN [ok |-> ok, bytes |-> IF ok THEN [j \in 1..nbytes |-> byte(j)] ELSE <<>>]

\* _pad inside _verify_password: s + "=" * (-len(s) % 4)
PadMutant(s) == s

Pad(s) == s \o [i \in 1..((4 - (Len(s) % 4)) % 4) |-> "="]

\* ---- the inputs tried
pw_password123  == <<"p", "a", "s", "s", "w", "o", "r", "d", "1", "2", "3">>
pw_wrongpass123 == <<"w", "r", "o", "n", "g", "p", "a", "s", "s", "1", "2", "3">>
pw_8chars       == <<"p", "a", "s", "s", "w", "o", "r", "1">>
pw_7chars       == <<"p", "a", "s", "s", "w", "o", "r">>
PasswordList == <<pw_password123, pw_wrongpass123, pw_8chars, pw_7chars>>
Passwords == {PasswordList[i] : i \in 1..Len(PasswordList)}

\* secrets.token_bytes(16): two of the values it may return
Salts == {[i \in 1..SALT_BYTES |-> i], [i \in 1..SALT_BYTES |-> 256 - i]}

\* hashlib.pbkdf2_hmac("sha256", password, salt, iterations, dklen), abstracted:
\* the key stream is an injective encoding of (password, iterations, salt) and
\* the derived key is its first dklen bytes.  Non-positive iterations or dklen
\* raise ValueError.
PBKDF2RaisesMutant(iterations, dklen) == FALSE

PBKDF2Raises(iterations, dklen) == iterations <= 0 \/ dklen <= 0

PwIndex(password) == CHOOSE i \in 1..Len(PasswordList) : PasswordList[i] = password

KeyStream(password, salt, iterations) ==
    <<PwIndex(password), iterations % 256, (iterations \div 256) % 256,
      (iterations \div 65536) % 256, Len(salt)>> \o salt

PBKDF2(password, salt, iterations, dklen) ==
    [i \in 1..dklen |->
        IF i <= Len(KeyStream(password, salt, iterations))
        THEN KeyStream(password, salt, iterations)[i] ELSE 0]

\* User._hash_password, with the salt drawn by secrets.token_bytes made explicit
HashPasswordRaises(password) == Len(password) < MinPasswordLen

hash_password(password, salt) ==
    Join(<<PWD_ALGO, IntToStr(PWD_ITERATIONS),
           RStrip(B64Encode(salt), "="),
           RStrip(B64Encode(PBKDF2(password, salt, PWD_ITERATIONS, DKLEN)), "=")>>,
         "$")

\* User._validate_password_hash: TRUE when it raises ValueError
ValidatePasswordHashRaisesMutant(password_hash) ==
    \/ Len(Strip(password_hash)) = 0
    \/ Len(Split(password_hash, "$", -1)) < 4
    \/ Split(password_hash, "$", -1)[1] # PWD_ALGO

ValidatePasswordHashRaises(password_hash) ==
    \/ Len(Strip(password_hash)) = 0
    \/ Len(Split(password_hash, "$", -1)) # 4
    \/ Split(password_hash, "$", -1)[1] # PWD_ALGO

PwOutcome(ret, raised) == [ret |-> ret, raised |-> raised]

\* User._verify_password
verify_password(password, stored_hash) ==
    LET parts == Split(stored_hash, "$", 3) IN
    IF Len(parts) # 4 THEN PwOutcome(FALSE, "none")
    ELSE IF parts[1] # PWD_ALGO THEN PwOutcome(FALSE, "none")
    ELSE IF ~ParseInt(parts[2]).ok THEN PwOutcome(FALSE, "none")
    ELSE LET iters == ParseInt(parts[2]).value
             salt == B64Decode(Pad(parts[3]))
             expected == B64Decode(Pad(parts[4]))
         IN IF ~salt.ok \/ ~expected.ok THEN PwOutcome(FALSE, "none")
            ELSE IF PBKDF2Raises(iters, Len(expected.bytes))
            THEN PwOutcome(FALSE, "ValueError")
            ELSE PwOutcome(PBKDF2(password, salt.bytes, iters, Len(expected.bytes))
                              = expected.bytes, "none")

\* User.login
login(self_password_hash, password) == verify_password(password, self_password_hash)

\* ---- bound of the password component
MaxFields == 5      \* most "$"-separated fields in a stored hash tried

\* Stored hashes tried: every combination of these fields, cut or extended to
\* 1..MaxFields fields, a blank string, and the hashes _hash_password writes.
TagFields   == {PWD_ALGO, <<"m", "d", "5">>, <<>>}
ItersFields == {<<"1">>, <<"0">>, <<"x">>, <<>>}
SaltFields  == {<<>>, <<"A", "Q", "I", "D">>, <<"A">>}
DkFields    == {<<>>, <<"A", "A">>, <<"A">>, <<"!">>}
ExtraField  == <<"x">>

FieldList(t, it, sa, dk, n) ==
    IF n <= 4 THEN SubSeq(<<t, it, sa, dk>>, 1, n)
    ELSE <<t, it, sa, dk>> \o [i \in 1..(n - 4) |-> ExtraField]

HashedPasswords ==
    {hash_password(p, sa) : p \in {q \in Passwords : ~HashPasswordRaises(q)},
                            sa \in Salts}

StoredHashes ==
    {Join(FieldList(t, it, sa, dk, n), "$") :
        t \in TagFields, it \in ItersFields, sa \in SaltFields, dk \in DkFields,
        n \in 1..MaxFields}
    \cup {<<" ", " ">>} \cup HashedPasswords

NoUser == [built |-> FALSE, password_hash |-> <<>>]

PwLast(op, password, stored_hash, ret, raised) ==
    [op |-> op, password |-> password, stored_hash |-> stored_hash,
     ret |-> ret, raised |-> raised]

\* The arguments of the next call are drawn at the start.
PwInit ==
    /\ pw_hash = NoUser
    /\ \E password \in Passwords, stored_hash \in StoredHashes :
        pw_last = PwLast("input", password, stored_hash, FALSE, "none")

\* User.register: hash the password, then construct (the other fields valid).
Register ==
    /\ ~pw_hash.built
    /\ pw_last.op = "input"
    /\ \E salt \in Salts :
        IF HashPasswordRaises(pw_last.password)
        THEN /\ pw_hash' = pw_hash
             /\ pw_last' = PwLast("register", pw_last.password, <<>>, FALSE,
                                  "ValueError")
        ELSE \E pwd_hash \in {hash_password(pw_last.password, salt)} :
             IF ValidatePasswordHashRaises(pwd_hash)
             THEN /\ pw_hash' = pw_hash
                  /\ pw_last' = PwLast("register", pw_last.password, pwd_hash,
                                       FALSE, "ValueError")
             ELSE /\ pw_hash' = [built |-> TRUE, password_hash |-> pwd_hash]
                  /\ pw_last' = PwLast("register", pw_last.password, pwd_hash,
                                       FALSE, "none")
    /\ UNCHANGED otherPwVars

\* User.__init__ with a stored password_hash (the other fields valid).
ConstructUser ==
    /\ ~pw_hash.built
    /\ pw_last.op = "input"
    /\ IF ValidatePasswordHashRaises(pw_last.stored_hash)
       THEN /\ pw_hash' = pw_hash
            /\ pw_last' = PwLast("construct", <<>>, pw_last.stored_hash, FALSE,
                                 "ValueError")
       ELSE /\ pw_hash' = [built |-> TRUE, password_hash |-> pw_last.stored_hash]
            /\ pw_last' = PwLast("construct", <<>>, pw_last.stored_hash, FALSE,
                                 "none")
    /\ UNCHANGED otherPwVars

\* User.login
Login ==
    /\ pw_hash.built
    /\ \E password \in Passwords :
        /\ pw_hash' = pw_hash
        /\ pw_last' = PwLast("login", password, pw_hash.password_hash,
                             login(pw_hash.password_hash, password).ret,
                             login(pw_hash.password_hash, password).raised)
    /\ UNCHANGED otherPwVars

\* User._verify_password called as a classmethod on the drawn arguments.
VerifyPassword ==
    /\ ~pw_hash.built
    /\ pw_last.op = "input"
    /\ pw_hash' = pw_hash
    /\ pw_last' = PwLast("verify", pw_last.password, pw_last.stored_hash,
                         verify_password(pw_last.password, pw_last.stored_hash).ret,
                         verify_password(pw_last.password, pw_last.stored_hash).raised)
    /\ UNCHANGED otherPwVars

\* The user whose rides are followed was registered with a valid password.
RegisteredUser ==
    [built |-> TRUE,
     password_hash |-> hash_password(pw_password123, [i \in 1..SALT_BYTES |-> i])]

\* What login gives that user for each password tried.
LoginOutcome ==
    [password \in Passwords |-> login(RegisteredUser.password_hash, password)]

\* User.login called between the ride calls of that user: it reads the stored
\* hash and assigns nothing.
UserLogin ==
    /\ pw_hash = RegisteredUser
    /\ \E password \in Passwords :
        /\ user' = user
        /\ u_last' = ULast("login", NoneRide, user,
                           LoginOutcome[password].raised # "none")
    /\ rep_last' = NoReportCall
    /\ UNCHANGED <<snapshot, viewed, ended>>
    /\ UNCHANGED otherUserVars

PwNext ==
    \/ Register
    \/ ConstructUser
    \/ Login
    \/ VerifyPassword

(***************************************************************************)
(* 5. Rent permission and the Pro licence (domain/users.py)                *)
(*                                                                         *)
(* A datetime is its wall-clock reading in hours, with either no tzinfo    *)
(* (naive) or a UTC offset in hours (aware).                               *)
(***************************************************************************)

\* ---- bound of the licence component
MaxTime == 3        \* wall-clock readings and the clock range over 0..MaxTime

UtcOffsets == {0, 2}

NoneTime == [is_none |-> TRUE, aware |-> FALSE, wall |-> 0, off |-> 0]
DateTimes ==
    {[is_none |-> FALSE, aware |-> FALSE, wall |-> w, off |-> 0] : w \in 0..MaxTime}
    \cup {[is_none |-> FALSE, aware |-> TRUE, wall |-> w, off |-> o] :
             w \in 0..MaxTime, o \in UtcOffsets}

\* datetime.now(UTC)
NowUtc(clock) == [is_none |-> FALSE, aware |-> TRUE, wall |-> clock, off |-> 0]

\* dt.replace(tzinfo=UTC): the wall-clock reading is kept
ReplaceTzUtc(dt) == [dt EXCEPT !.aware = TRUE, !.off = 0]

\* "if x.tzinfo is None: x = x.replace(tzinfo=UTC)"
Normalize(dt) == IF ~dt.aware THEN ReplaceTzUtc(dt) ELSE dt

\* a >= b on aware datetimes compares the instants
AwareGEMutant(a, b) == a.wall - a.off > b.wall - b.off

AwareGE(a, b) == a.wall - a.off >= b.wall - b.off

\* ProUser.validate_license; a datetime is always truthy, so "at or now()"
\* takes the clock only when at is None.
validate_license(self, at, clock) ==
    AwareGE(Normalize(self.license_expiry),
            Normalize(IF at.is_none THEN NowUtc(clock) ELSE at))

\* Vehicle.is_electric per class (tests/test_vehicles.py lines 55-58)
is_electric(kind) == kind \in {"EBike", "Scooter"}

\* User.can_rent
User_can_rent(kind) == ~is_electric(kind)

\* ProUser.can_rent
ProUser_can_rent_mutant(self, kind, clock) ==
    validate_license(self, NoneTime, clock) \/ ~is_electric(kind)

ProUser_can_rent(self, kind, clock) == validate_license(self, NoneTime, clock)

\* The last call: its arguments, the clock reading when it ran, its result.
LicLast(op, user_kind, at, kind, clock, ret) ==
    [op |-> op, user_kind |-> user_kind, at |-> at, vehicle |-> kind,
     clock |-> clock, ret |-> ret]

\* A ProUser built with any datetime as license_expiry; the clock starts at 0.
LicInit ==
    /\ \E expiry \in DateTimes : pro = [license_expiry |-> expiry]
    /\ now = 0
    /\ lic_last = LicLast("none", "Pro", NoneTime, "Bike", 0, FALSE)

\* Time passes.
Tick ==
    /\ now < MaxTime
    /\ now' = now + 1
    /\ UNCHANGED <<pro, lic_last>>
    /\ UNCHANGED otherLicVars

ValidateLicense ==
    /\ \E at \in DateTimes \cup {NoneTime} :
        lic_last' = LicLast("validate_license", "Pro", at, "Bike", now,
                            validate_license(pro, at, now))
    /\ UNCHANGED <<pro, now>>
    /\ UNCHANGED otherLicVars

\* can_rent on the Pro user
ProCanRent ==
    /\ \E kind \in VehicleKinds :
        lic_last' = LicLast("can_rent", "Pro", NoneTime, kind, now,
                            ProUser_can_rent(pro, kind, now))
    /\ UNCHANGED <<pro, now>>
    /\ UNCHANGED otherLicVars

\* can_rent on a base / Amateur user (AmateurUser inherits User.can_rent)
UserCanRent ==
    /\ \E kind \in VehicleKinds, user_kind \in {"User", "Amateur"} :
        lic_last' = LicLast("can_rent", user_kind, NoneTime, kind, now,
                            User_can_rent(kind))
    /\ UNCHANGED <<pro, now>>
    /\ UNCHANGED otherLicVars

LicNext ==
    \/ Tick
    \/ ValidateLicense
    \/ ProCanRent
    \/ UserCanRent

(***************************************************************************)
(* 6. The station repository and the nearest-station query                 *)
(*    (persistence/in_memory.py, services/stations_service.py)             *)
(***************************************************************************)

\* ---- bound of the repository component
MaxStationId == 3   \* station ids range over 1..MaxStationId

\* Coordinates of the stations and of the query point, on a small grid.
Longitudes      == {-1, 0, 2}
Latitudes       == {0, 1}
QueryLongitudes == {-1, 1, 2}
QueryLatitudes  == {0, 1}

StationRecords ==
    {[station_id |-> i, longitude |-> lo, latitude |-> la] :
        i \in 1..MaxStationId, lo \in Longitudes, la \in Latitudes}

NoneStation == [station_id |-> 0, longitude |-> 0, latitude |-> 0]

\* The dict StationRepository._stations, as its values in insertion order.
\* dict[key] = value keeps the position of a key already present.
DictSet(d, value) ==
    IF \E i \in 1..Len(d) : d[i].station_id = value.station_id
    THEN [i \in 1..Len(d) |->
             IF d[i].station_id = value.station_id THEN value ELSE d[i]]
    ELSE Append(d, value)

\* StationRepository.get_all
get_all(d) == d

\* distance_sq inside find_nearest_station
distance_sq_mutant(st, lon, lat) ==
    (st.longitude - lon) * (st.longitude - lon)

distance_sq(st, lon, lat) ==
    (st.longitude - lon) * (st.longitude - lon)
        + (st.latitude - lat) * (st.latitude - lat)

\* min(stations, key=...): the first item whose key is minimal
MinByKeyMutant(stations, lon, lat) ==
    stations[CHOOSE i \in 1..Len(stations) :
        /\ \A j \in 1..Len(stations) :
              distance_sq(stations[i], lon, lat) <= distance_sq(stations[j], lon, lat)
        /\ \A j \in (i + 1)..Len(stations) :
              distance_sq(stations[j], lon, lat) > distance_sq(stations[i], lon, lat)]

MinByKey(stations, lon, lat) ==
    stations[CHOOSE i \in 1..Len(stations) :
        /\ \A j \in 1..Len(stations) :
              distance_sq(stations[i], lon, lat) <= distance_sq(stations[j], lon, lat)
        /\ \A j \in 1..(i - 1) :
              distance_sq(stations[j], lon, lat) > distance_sq(stations[i], lon, lat)]

\* find_nearest_station
find_nearest_station(d, lon, lat) ==
    IF Len(get_all(d)) = 0 THEN [is_none |-> TRUE, station |-> NoneStation]
    ELSE [is_none |-> FALSE, station |-> MinByKey(get_all(d), lon, lat)]

NrLast(op, lon, lat, is_none, st) ==
    [op |-> op, lon |-> lon, lat |-> lat, is_none |-> is_none, station |-> st]

\* StationRepository.__init__
RepoInit ==
    /\ repo = <<>>
    /\ nr_last = NrLast("none", 0, 0, TRUE, NoneStation)
    /\ first_seen = <<>>

\* StationRepository.add
RepoAdd ==
    /\ \E st \in StationRecords :
           /\ repo' = DictSet(repo, st)
           /\ nr_last' = NrLast("add", 0, 0, TRUE, NoneStation)
           /\ first_seen' =
                 IF \E i \in 1..Len(first_seen) : first_seen[i] = st.station_id
                 THEN first_seen
                 ELSE Append(first_seen, st.station_id)
    /\ UNCHANGED otherRepoVars

\* StationRepository.clear
RepoClear ==
    /\ repo' = <<>>
    /\ nr_last' = NrLast("clear", 0, 0, TRUE, NoneStation)
    /\ first_seen' = <<>>
    /\ UNCHANGED otherRepoVars

FindNearest ==
    /\ \E lon \in QueryLongitudes, lat \in QueryLatitudes :
           /\ repo' = repo
           /\ first_seen' = first_seen
           /\ nr_last' = NrLast("find_nearest", lon, lat,
                                find_nearest_station(repo, lon, lat).is_none,
                                find_nearest_station(repo, lon, lat).station)
    /\ UNCHANGED otherRepoVars

RepoNext ==
    \/ RepoAdd
    \/ RepoClear
    \/ FindNearest

(***************************************************************************)
(* 7. The nearest-station endpoint                                         *)
(*    (api/routers/stations_router.py, api/app.py)                         *)
(*                                                                         *)
(* Coordinates are whole degrees.  app.state.station_repository is either  *)
(* not set, None, an object of another type, or a StationRepository whose  *)
(* dict is kept in insertion order.                                        *)
(***************************************************************************)

\* ---- bound of the endpoint component
MaxApiStationId == 2   \* station ids range over 1..MaxApiStationId

\* ---- ranges of the query parameters
LonMin == -180
LonMax == 180
LatMin == -90
LatMax == 90

\* A query parameter: absent from the request, or a number.
MissingParam == [present |-> FALSE, value |-> 0]
Param(v) == [present |-> TRUE, value |-> v]
LonParams == {MissingParam} \cup {Param(v) : v \in {-181, -180, 34, 180, 181}}
LatParams == {MissingParam} \cup {Param(v) : v \in {-91, -90, 32, 90, 91}}

\* Station objects held by the application's repository: valid stations with
\* all their fields.
ApiStationNames == [i \in 1..MaxApiStationId |-> IF i = 1 THEN "Close" ELSE "Far"]
ApiStations ==
    {[station_id |-> i, name |-> ApiStationNames[i], latitude |-> c[2],
      longitude |-> c[1], capacity |-> cap, vehicles |-> vs] :
        i \in 1..MaxApiStationId, c \in {<<34, 32>>, <<10, 50>>},
        cap \in {1, 2}, vs \in {<<"V1">>}}
    \cup {[station_id |-> i, name |-> ApiStationNames[i], latitude |-> 32,
           longitude |-> 34, capacity |-> 1, vehicles |-> <<>>] :
              i \in 1..MaxApiStationId}

RepositoryKinds == {"unset", "None", "other", "StationRepository"}

\* StationRepository.load_from_csv, lines 64-67: every loaded station is
\* stored under its id, in file order.
RECURSIVE StationsLoadInto(_, _)
StationsLoadInto(d, stations) ==
    IF Len(stations) = 0 THEN d
    ELSE StationsLoadInto(DictSet(d, Head(stations)), Tail(stations))

\* station_to_dict
station_to_dict(st) ==
    [station_id |-> st.station_id, name |-> st.name, lat |-> st.latitude,
     lon |-> st.longitude, max_capacity |-> st.capacity,
     available_slots |-> available_slots(st), is_full |-> is_full(st),
     is_empty |-> is_empty(st)]

NoData == [station_id |-> 0, name |-> "", lat |-> 0, lon |-> 0, max_capacity |-> 0,
           available_slots |-> 0, is_full |-> FALSE, is_empty |-> FALSE]

Response(status_code, detail, data) ==
    [status_code |-> status_code, detail |-> detail, data |-> data]

\* Query(..., ge=lo, le=hi): the request is refused before the handler runs
\* when the parameter is absent or out of range.
QueryRejectedMutant(p, lo, hi) == ~p.present \/ p.value <= lo \/ p.value >= hi

QueryRejected(p, lo, hi) == ~p.present \/ p.value < lo \/ p.value > hi

\* nearest_station
nearest_station(a, lon, lat) ==
    IF QueryRejected(lon, LonMin, LonMax) \/ QueryRejected(lat, LatMin, LatMax)
    THEN Response(422, "validation error", NoData)
    ELSE IF a.station_repository # "StationRepository"
    THEN Response(500, "Station repository not initialized", NoData)
    ELSE LET found == find_nearest_station(a.stations, lon.value, lat.value)
         IN IF found.is_none
            THEN Response(404, "No stations available", NoData)
            ELSE Response(200, "", station_to_dict(found.station))

HttpLast(op, lon, lat, response) ==
    [op |-> op, lon |-> lon, lat |-> lat, response |-> response]

\* FastAPI() before startup: nothing is set on app.state.  http_last holds the
\* last request answered in the current state of app.state.
NoRequest == HttpLast("none", MissingParam, MissingParam, Response(0, "", NoData))

ApiInit ==
    /\ app = [station_repository |-> "unset", stations |-> <<>>]
    /\ http_last = NoRequest

\* lifespan: a StationRepository is filled from the stations CSV and installed.
Lifespan ==
    /\ app.station_repository = "unset"
    /\ \E loaded \in SeqsUpTo(ApiStations, 2) :
        app' = [station_repository |-> "StationRepository",
                stations |-> StationsLoadInto(<<>>, loaded)]
    /\ http_last' = NoRequest
    /\ UNCHANGED otherApiVars

\* app.state.station_repository = <value>: a fresh StationRepository(), None,
\* or an object that is no StationRepository.
SetStationRepository ==
    /\ \E kind \in RepositoryKinds \ {"unset"} :
        app' = [station_repository |-> kind, stations |-> <<>>]
    /\ http_last' = NoRequest
    /\ UNCHANGED otherApiVars

\* repo.add(station) on the installed repository
ApiRepoAdd ==
    /\ app.station_repository = "StationRepository"
    /\ \E st \in ApiStations :
        app' = [app EXCEPT !.stations = DictSet(@, st)]
    /\ http_last' = NoRequest
    /\ UNCHANGED otherApiVars

\* repo.clear() on the installed repository
ApiRepoClear ==
    /\ app.station_repository = "StationRepository"
    /\ app' = [app EXCEPT !.stations = <<>>]
    /\ http_last' = NoRequest
    /\ UNCHANGED otherApiVars

\* GET /stations/nearest
NearestStation ==
    /\ \E lon \in LonParams, lat \in LatParams :
        http_last' = HttpLast("nearest_station", lon, lat,
                              nearest_station(app, lon, lat))
    /\ UNCHANGED app
    /\ UNCHANGED otherApiVars

ApiNext ==
    \/ Lifespan
    \/ SetStationRepository
    \/ ApiRepoAdd
    \/ ApiRepoClear
    \/ NearestStation

(***************************************************************************)
(* 8. CSV ingestion (persistence/loaders.py)                               *)
(*                                                                         *)
(* A CSV file is its header (the column names) and its data rows, each the *)
(* list of its cells as character strings.  csv.DictReader pairs the cells *)
(* with the header: a column the row is too short for reads None, a column *)
(* the header lacks is absent from the dict, a row without cells (a blank  *)
(* line) is not delivered at all.                                          *)
(***************************************************************************)

\* ---- bound of the ingestion component
MaxRows == 3   \* data rows per file

\* The header of the vehicles feed with its optional columns, and without.
HeaderFull ==
    <<"vehicle_id", "station_id", "vehicle_type", "status",
      "rides_since_last_treated", "last_treated_date", "frame_number",
      "has_child_seat", "battery_level">>
HeaderRequired == SubSeq(HeaderFull, 1, 6)
VehicleHeaders == {HeaderFull, HeaderRequired}

\* Data rows, written in the column order of HeaderFull.
\* a Bike without frame_number
row_bike ==
    <<<<"b", "1">>, <<"1">>, <<"b", "i", "c", "y", "c", "l", "e">>, <<"a", "v", "a", "i", "l", "a", "b", "l", "e">>, <<"5">>, <<"2", "0", "2", "6">>, <<>>, <<"y", "e", "s">>, <<>>>>
\* an EBike, battery above 100
row_ebike ==
    <<<<"e", "1">>, <<"1">>, <<"e", "l", "e", "c", "t", "r", "i", "c", "_", "b", "i", "c", "y", "c", "l", "e">>, <<"i", "n", "_", "u", "s", "e">>, <<"3">>, <<"2", "0", "2", "6">>, <<"f", "4">>, <<>>, <<"9", "9", "9">>>>
\* a Scooter, battery below 0
row_scooter ==
    <<<<"s", "1">>, <<"1">>, <<"s", "c", "o", "o", "t", "e", "r">>, <<"d", "e", "g", "r", "a", "d", "e", "d">>, <<"2">>, <<"2", "0", "2", "6">>, <<"f", "5">>, <<>>, <<" ", "-", "5">>>>
\* missing vehicle_id
row_no_id ==
    <<<<>>, <<"1">>, <<"b", "i", "c", "y", "c", "l", "e">>, <<"a", "v", "a", "i", "l", "a", "b", "l", "e">>, <<"0">>, <<"2", "0", "2", "6">>, <<"f", "0">>, <<"t", "r", "u", "e">>, <<"1", "0">>>>
\* unknown vehicle_type
row_bad_type ==
    <<<<"x", "1">>, <<"1">>, <<"s", "p", "a", "c", "e", "s", "h", "i", "p">>, <<"a", "v", "a", "i", "l", "a", "b", "l", "e">>, <<"0">>, <<"2", "0", "2", "6">>, <<"f", "1">>, <<"f", "a", "l", "s", "e">>, <<"1", "0">>>>
\* invalid status
row_bad_status ==
    <<<<"x", "2">>, <<"1">>, <<"b", "i", "c", "y", "c", "l", "e">>, <<"m", "a", "i", "n", "t", "e", "n", "a", "n", "c", "e">>, <<"0">>, <<"2", "0", "2", "6">>, <<"f", "2">>, <<"f", "a", "l", "s", "e">>, <<"1", "0">>>>
\* non-numeric rides_since_last_treated
row_bad_rides ==
    <<<<"x", "3">>, <<"1">>, <<"b", "i", "c", "y", "c", "l", "e">>, <<"a", "v", "a", "i", "l", "a", "b", "l", "e">>, <<"x">>, <<"2", "0", "2", "6">>, <<"f", "3">>, <<>>, <<>>>>
\* non-numeric battery_level
row_bad_battery ==
    <<<<"e", "2">>, <<"1">>, <<"e", "l", "e", "c", "t", "r", "i", "c", "_", "b", "i", "c", "y", "c", "l", "e">>, <<"a", "v", "a", "i", "l", "a", "b", "l", "e">>, <<"1">>, <<"2", "0", "2", "6">>, <<"f", "6">>, <<>>, <<"a", "b", "c">>>>
\* b1 again: padded type, empty status
row_bike_again ==
    <<<<"b", "1">>, <<"1">>, <<" ", "B", "i", "c", "y", "c", "l", "e", " ">>, <<>>, <<" ", "7", " ">>, <<"2", "0", "2", "6">>, <<"f", "7">>, <<>>, <<>>>>
\* negative rides_since_last_treated
row_negative_rides ==
    <<<<"b", "2">>, <<"1">>, <<"b", "i", "c", "y", "c", "l", "e">>, <<"a", "v", "a", "i", "l", "a", "b", "l", "e">>, <<"-", "3">>, <<"2", "0", "2", "6">>, <<"f", "8">>, <<>>, <<>>>>
\* a line with the id only
row_one_cell ==
    <<<<"b", "3">>>>
\* a line that ends after frame_number
row_seven_cells ==
    <<<<"e", "3">>, <<"1">>, <<"e", "l", "e", "c", "t", "r", "i", "c", "_", "b", "i", "c", "y", "c", "l", "e">>, <<"a", "v", "a", "i", "l", "a", "b", "l", "e">>, <<"1">>, <<"2", "0", "2", "6">>, <<"f", "9">>>>
\* a blank line
row_blank ==
    <<>>
VehicleRowList ==
    <<row_bike,
      row_ebike,
      row_scooter,
      row_no_id,
      row_bad_type,
      row_bad_status,
      row_bad_rides,
      row_bad_battery,
      row_bike_again,
      row_negative_rides,
      row_one_cell,
      row_seven_cells,
      row_blank>>
VehicleRows == {VehicleRowList[i] : i \in 1..Len(VehicleRowList)}

\* str.lower()
UpperCase ==
    <<"A", "B", "C", "D", "E", "F", "G", "H", "I", "J", "K", "L", "M",
      "N", "O", "P", "Q", "R", "S", "T", "U", "V", "W", "X", "Y", "Z">>
LowerCase ==
    <<"a", "b", "c", "d", "e", "f", "g", "h", "i", "j", "k", "l", "m",
      "n", "o", "p", "q", "r", "s", "t", "u", "v", "w", "x", "y", "z">>
LowerChar(c) ==
    IF \E i \in 1..Len(UpperCase) : UpperCase[i] = c
    THEN LowerCase[CHOOSE i \in 1..Len(UpperCase) : UpperCase[i] = c]
    ELSE c
Lower(s) == [i \in 1..Len(s) |-> LowerChar(s[i])]

\* row.get(column, default) on the dict csv.DictReader builds for a row
RowGet(header, cells, column, default) ==
    IF \A i \in 1..Len(header) : header[i] # column THEN Cell(default)
    ELSE LET i == CHOOSE k \in 1..Len(header) : header[k] = column
         IN IF i > Len(cells) THEN NoneCell ELSE Cell(cells[i])

\* TYPE_MAP.get(raw_type, raw_type)
str_bicycle == <<"b", "i", "c", "y", "c", "l", "e">>
str_electric_bicycle ==
    <<"e", "l", "e", "c", "t", "r", "i", "c", "_", "b", "i", "c", "y", "c", "l", "e">>
str_scooter == <<"s", "c", "o", "o", "t", "e", "r">>
str_bike == <<"b", "i", "k", "e">>
str_ebike == <<"e", "b", "i", "k", "e">>
TypeMap(raw_type) ==
    IF raw_type = str_bicycle THEN str_bike
    ELSE IF raw_type = str_electric_bicycle THEN str_ebike
    ELSE raw_type
VALID_TYPES == {str_bike, str_ebike, str_scooter}

\* VALID_STATUSES, the values of VehicleStatus
str_available == <<"a", "v", "a", "i", "l", "a", "b", "l", "e">>
VALID_STATUSES ==
    {str_available,
     <<"i", "n", "_", "u", "s", "e">>,
     <<"a", "w", "a", "i", "t", "i", "n", "g", "_", "r", "e", "p", "o", "r", "t", "_",
       "r", "e", "v", "i", "e", "w">>,
     <<"d", "e", "g", "r", "a", "d", "e", "d">>}

\* _parse_status: TRUE when it raises ValueError
ParseStatusRaises(value) == Lower(Strip(value)) \notin VALID_STATUSES

\* _parse_int: [ok, value], ok = FALSE when int() raises ValueError
parse_int(value, default) ==
    IF Len(Strip(value)) = 0 THEN [ok |-> TRUE, value |-> default]
    ELSE ParseInt(Strip(value))

\* The body of the loop of load_vehicles_from_csv for one row, in the order
\* the statements run: the vehicle it appends, "skip" for a row it skips, or
\* the AttributeError of None.strip(), which no except clause catches.
RowResult(kind, v) == [kind |-> kind, vehicle |-> v]

VehicleOfRow(header, cells) ==
    LET id_cell     == RowGet(header, cells, "vehicle_id", <<>>)
        frame_cell  == RowGet(header, cells, "frame_number", <<>>)
        type_cell   == RowGet(header, cells, "vehicle_type", <<>>)
        status_cell == RowGet(header, cells, "status", str_available)
        rides_cell  == RowGet(header, cells, "rides_since_last_treated", <<"0">>)
        seat_cell   == RowGet(header, cells, "has_child_seat",
                              <<"f", "a", "l", "s", "e">>)
        batt_cell   == RowGet(header, cells, "battery_level", <<"1", "0", "0">>)
        vehicle_id  == Strip(id_cell.text)
        vehicle_type == TypeMap(Lower(Strip(type_cell.text)))
        status_str  == IF Len(Strip(status_cell.text)) = 0 THEN str_available
                       ELSE Strip(status_cell.text)
        rides_since == parse_int(rides_cell.text, 0)
        battery     == parse_int(batt_cell.text, 100)
        loaded(v)   == RowResult("vehicle",
                           [v EXCEPT !.ride_count = rides_since.value,
                                     !.last_maintenance_ride_count = 0])
    IN IF id_cell.none \/ frame_cell.none \/ type_cell.none \/ status_cell.none
          \/ rides_cell.none
       THEN RowResult("AttributeError", NoVehicle)
       ELSE IF ~rides_since.ok THEN RowResult("skip", NoVehicle)
       ELSE IF Len(vehicle_id) = 0 THEN RowResult("skip", NoVehicle)
       ELSE IF vehicle_type \notin VALID_TYPES THEN RowResult("skip", NoVehicle)
       ELSE IF ParseStatusRaises(status_str) THEN RowResult("skip", NoVehicle)
       ELSE IF vehicle_type = str_bike
       THEN IF seat_cell.none THEN RowResult("AttributeError", NoVehicle)
            ELSE loaded(Bike_init(vehicle_id))
       ELSE IF batt_cell.none THEN RowResult("AttributeError", NoVehicle)
       ELSE IF ~battery.ok THEN RowResult("skip", NoVehicle)
       ELSE loaded(Electric_init(IF vehicle_type = str_ebike THEN "EBike" ELSE "Scooter",
                                 vehicle_id,
                                 Max(BatteryMin, Min(BatteryMax, battery.value))))

\* A CSV file on disk, or no file at that path.  An empty file has no header.
CsvFile(exists, header, rows) == [exists |-> exists, header |-> header, rows |-> rows]
MissingFile == CsvFile(FALSE, <<>>, <<>>)
EmptyFile == CsvFile(TRUE, <<>>, <<>>)

\* The rows csv.DictReader delivers: rows without cells are dropped.
DeliveredRows(file) == SelectSeq(file.rows, LAMBDA cells : Len(cells) > 0)

Loaded(raised, entities) == [raised |-> raised, entities |-> entities]

\* load_vehicles_from_csv
load_vehicles_from_csv(file) ==
    IF ~file.exists THEN Loaded("none", <<>>)
    ELSE IF Len(file.header) = 0 THEN Loaded("none", <<>>)
    ELSE LET rows == DeliveredRows(file)
             results == [i \in 1..Len(rows) |-> VehicleOfRow(file.header, rows[i])]
             appended == SelectSeq(results, LAMBDA r : r.kind = "vehicle")
         IN IF \E i \in 1..Len(rows) : results[i].kind = "AttributeError"
            THEN Loaded("AttributeError", <<>>)
            ELSE Loaded("none", [i \in 1..Len(appended) |-> appended[i].vehicle])

\* ---- the stations feed
StationHeader == <<"station_id", "name", "lat", "lon", "max_capacity">>

\* a valid station
srow_valid ==
    <<<<"5">>, <<"V", "a", "l", "i", "d">>, <<"3", "2">>, <<"3", "4">>, <<"7">>>>
\* station 5 again
srow_valid_again ==
    <<<<"5">>, <<"O", "t", "h", "e", "r">>, <<"3", "3">>, <<"3", "5">>, <<"2">>>>
\* padded cells, coordinates on the range boundaries
srow_padded ==
    <<<<" ", "6", " ">>, <<" ", "T", "h", "i", "r", "d", " ">>, <<"-", "9", "0">>, <<"1", "8", "0">>, <<"1">>>>
\* missing station_id
srow_no_id ==
    <<<<>>, <<"D", "i", "z", "e", "n", "g", "o", "f", "f">>, <<"3", "2">>, <<"3", "4">>, <<"1", "0">>>>
\* missing name
srow_no_name ==
    <<<<"1">>, <<>>, <<"3", "2">>, <<"3", "4">>, <<"1", "0">>>>
\* missing lat
srow_no_lat ==
    <<<<"2">>, <<"H", "a", "b", "i", "m", "a">>, <<>>, <<"3", "4">>, <<"1", "0">>>>
\* missing max_capacity
srow_no_capacity ==
    <<<<"4">>, <<"R", "o", "t", "h", "s", "c", "h", "i", "l", "d">>, <<"3", "2">>, <<"3", "4">>, <<>>>>
\* unparsable station_id and lat
srow_bad_lat ==
    <<<<"x">>, <<"B", "u", "g">>, <<"n", "o", "t", "a", "l", "a", "t">>, <<"3", "4">>, <<"1", "0">>>>
\* a line that ends after the name
srow_short ==
    <<<<"7">>, <<"S", "h", "o", "r", "t">>>>
StationRowList ==
    <<srow_valid,
      srow_valid_again,
      srow_padded,
      srow_no_id,
      srow_no_name,
      srow_no_lat,
      srow_no_capacity,
      srow_bad_lat,
      srow_short>>
StationRows == {StationRowList[i] : i \in 1..Len(StationRowList)}

\* load_stations_from_csv for one row: a row with a missing, empty or
\* unparsable field, or one that Station.__init__ refuses, is skipped.
StationOfRow(header, cells) ==
    LET get(column) == RowGet(header, cells, column, <<>>)
        present(column) == ~get(column).none /\ Len(Strip(get(column).text)) > 0
        num(column) == ParseInt(Strip(get(column).text))
    IN IF \E i \in 1..Len(StationHeader) : ~present(StationHeader[i])
       THEN RowResult("skip", NoneStation)
       ELSE IF ~num("station_id").ok \/ ~num("lat").ok \/ ~num("lon").ok
               \/ ~num("max_capacity").ok
       THEN RowResult("skip", NoneStation)
       ELSE IF \/ num("station_id").value < 0
               \/ num("lat").value < LatMin \/ num("lat").value > LatMax
               \/ num("lon").value < LonMin \/ num("lon").value > LonMax
               \/ CapacityRejected(num("max_capacity").value)
       THEN RowResult("skip", NoneStation)
       ELSE RowResult("vehicle",
                [station_id |-> num("station_id").value,
                 name |-> Strip(get("name").text),
                 latitude |-> num("lat").value, longitude |-> num("lon").value,
                 capacity |-> num("max_capacity").value, vehicles |-> <<>>])

\* load_stations_from_csv
load_stations_from_csv(file) ==
    IF ~file.exists THEN Loaded("none", <<>>)
    ELSE IF Len(file.header) = 0 THEN Loaded("none", <<>>)
    ELSE LET rows == DeliveredRows(file)
             results == [i \in 1..Len(rows) |-> StationOfRow(file.header, rows[i])]
             appended == SelectSeq(results, LAMBDA r : r.kind = "vehicle")
         IN Loaded("none", [i \in 1..Len(appended) |-> appended[i].vehicle])

\* The files the loaders are called on.
VehicleFiles ==
    {MissingFile, EmptyFile} \cup
    {CsvFile(TRUE, h, rows) : h \in VehicleHeaders, rows \in SeqsUpTo(VehicleRows, MaxRows)}
StationFiles ==
    {MissingFile, EmptyFile} \cup
    {CsvFile(TRUE, StationHeader, rows) : rows \in SeqsUpTo(StationRows, MaxRows)}

CsvLast(op, file, outcome) == [op |-> op, file |-> file, outcome |-> outcome]

\* The file and the loader of the next call are drawn at the start.
CsvInit ==
    \/ \E file \in VehicleFiles :
          csv_last = CsvLast("vehicles_file", file, Loaded("none", <<>>))
    \/ \E file \in StationFiles :
          csv_last = CsvLast("stations_file", file, Loaded("none", <<>>))

LoadVehicles ==
    /\ csv_last.op = "vehicles_file"
    /\ csv_last' = CsvLast("load_vehicles_from_csv", csv_last.file,
                           load_vehicles_from_csv(csv_last.file))
    /\ UNCHANGED otherCsvVars

LoadStations ==
    /\ csv_last.op = "stations_file"
    /\ csv_last' = CsvLast("load_stations_from_csv", csv_last.file,
                           load_stations_from_csv(csv_last.file))
    /\ UNCHANGED otherCsvVars

CsvNext ==
    \/ LoadVehicles
    \/ LoadStations

(***************************************************************************)
(* 9. Registration of a Pro user (domain/users.py)                         *)
(***************************************************************************)

\* ---- the arguments tried; an optional argument is a cell that may be None
name_bob      == <<"B", "o", "b">>
email_bob     == <<"b", "o", "b", "@", "e", "x", ".", "c", "o">>
email_padded  == <<" ", "B", "o", "b", "@", "e", "x", ".", "c", "o">>
email_no_dot  == <<"b", "o", "b", "@", "e", "x">>
pm_1          == <<"p", "m", "_", "1">>
uid_u1        == <<"u", "1">>
license_123   == <<"1", "2", "3">>
license_padded == <<" ", "1", "2", "3", " ">>
blank         == <<" ">>

NameArgs          == {name_bob, blank}
EmailArgs         == {email_bob, email_padded, email_no_dot}
PasswordArgs      == {pw_8chars, pw_7chars}
PaymentMethodArgs == {pm_1, <<>>}
UserIdArgs        == {NoneCell, Cell(<<>>), Cell(uid_u1), Cell(blank)}
LicenseNumberArgs == {NoneCell, Cell(<<>>), Cell(blank), Cell(license_123),
                      Cell(license_padded)}
LicenseExpiryArgs == {NoneTime, [is_none |-> FALSE, aware |-> TRUE, wall |-> 1, off |-> 0]}

\* uuid4().hex: two of the values it may return
uuid_a == <<"a", "0">>
uuid_b == <<"b", "1">>
Uuids == {uuid_a, uuid_b}

\* _EMAIL_RE = ^[^@\s]+@[^@\s]+\.[^@\s]+$ : no whitespace, one "@" after at
\* least one character, and a "." inside what follows the "@".
EmailMatches(s) ==
    /\ \A i \in 1..Len(s) : s[i] # " "
    /\ Cardinality({i \in 1..Len(s) : s[i] = "@"}) = 1
    /\ \E p \in 2..Len(s) :
          /\ s[p] = "@"
          /\ \E q \in (p + 2)..(Len(s) - 1) : s[q] = "."

\* The validators of User.__init__ and ProUser.__init__: TRUE when they raise
ValidateUserIdRaises(user_id) == Len(Strip(user_id)) = 0
ValidateNameRaises(name) == Len(Strip(name)) = 0
ValidateEmailRaises(email) == ~EmailMatches(Strip(email))
ValidatePaymentMethodIdRaises(payment_method_id) == Len(Strip(payment_method_id)) = 0

ValidateLicenseNumberRaisesMutant(license_number) ==
    license_number.none \/ license_number.text # license_123

ValidateLicenseNumberRaises(license_number) ==
    license_number.none \/ Len(Strip(license_number.text)) = 0

ValidateLicenseExpiryRaises(license_expiry) == license_expiry.is_none

NoRegistered == [kind |-> "none"]

\* ProUser.__init__: the user built, or NoRegistered when a validator raises
ProUser_init(user_id, name, email, password_hash, payment_method_id, license_number, license_expiry) ==
    IF \/ ValidateUserIdRaises(user_id)
       \/ ValidateNameRaises(name)
       \/ ValidateEmailRaises(email)
       \/ ValidatePasswordHashRaises(password_hash)
       \/ ValidatePaymentMethodIdRaises(payment_method_id)
       \/ ValidateLicenseNumberRaises(license_number)
       \/ ValidateLicenseExpiryRaises(license_expiry)
    THEN NoRegistered
    ELSE [kind |-> "ProUser",
          user_id |-> user_id,
          name |-> Strip(name),
          email |-> Lower(Strip(email)),
          password_hash |-> password_hash,
          payment_method_id |-> Strip(payment_method_id),
          license_number |-> Strip(license_number.text),
          license_expiry |-> license_expiry,
          ride_history |-> <<>>,
          current_ride |-> NoneRide]

\* ProUser.register, with the values uuid4 and token_bytes return made
\* explicit: the user built, or NoRegistered when it raises ValueError.
ProUser_register(name, email, password, payment_method_id, user_id, license_number, license_expiry, uuid, salt) ==
    IF Falsy(license_number) THEN NoRegistered
    ELSE IF license_expiry.is_none THEN NoRegistered
    ELSE IF HashPasswordRaises(password) THEN NoRegistered
    ELSE ProUser_init(IF Falsy(user_id) THEN uuid ELSE user_id.text,
                      name, email, hash_password(password, salt),
                      payment_method_id, license_number, license_expiry)

RegArgs(name, email, password, payment_method_id, user_id, license_number, license_expiry) ==
    [name |-> name, email |-> email, password |-> password,
     payment_method_id |-> payment_method_id, user_id |-> user_id,
     license_number |-> license_number, license_expiry |-> license_expiry]

RegLast(op, args, user_built) == [op |-> op, args |-> args, user |-> user_built]

NoRegArgs == RegArgs(<<>>, <<>>, <<>>, <<>>, NoneCell, NoneCell, NoneTime)

\* The arguments of the call are drawn at the start.
RegInit ==
    \E name \in NameArgs, email \in EmailArgs, password \in PasswordArgs,
       payment_method_id \in PaymentMethodArgs, user_id \in UserIdArgs,
       license_number \in LicenseNumberArgs, license_expiry \in LicenseExpiryArgs :
        reg_last = RegLast("input",
                           RegArgs(name, email, password, payment_method_id,
                                   user_id, license_number, license_expiry),
                           NoRegistered)

ProUserRegister ==
    /\ reg_last.op = "input"
    /\ \E uuid \in Uuids, salt \in Salts :
        reg_last' = RegLast("ProUser.register", reg_last.args,
                            ProUser_register(reg_last.args.name, reg_last.args.email,
                                             reg_last.args.password,
                                             reg_last.args.payment_method_id,
                                             reg_last.args.user_id,
                                             reg_last.args.license_number,
                                             reg_last.args.license_expiry,
                                             uuid, salt))
    /\ UNCHANGED otherRegVars

RegNext == ProUserRegister

(***************************************************************************)
(* 10. The in-memory repositories (persistence/in_memory.py)               *)
(*                                                                         *)
(* A dict is the sequence of its items in insertion order.                 *)
(***************************************************************************)

\* ---- bound of the repository component
MaxAdds == 3    \* entities put into a store between two clears

RepositoryClasses == {"VehicleRepository", "StationRepository"}

\* The key an entity is stored under: v._vehicle_id or s.station_id
Key(cls, entity) ==
    IF cls = "VehicleRepository" THEN entity.vehicle_id ELSE entity.station_id

\* d[key] = value: a key already present keeps its position
DictSetItemMutant(d, key, value) ==
    IF \E i \in 1..Len(d) : d[i].key = key THEN d
    ELSE Append(d, [key |-> key, value |-> value])

DictSetItem(d, key, value) ==
    IF \E i \in 1..Len(d) : d[i].key = key
    THEN [i \in 1..Len(d) |->
             IF d[i].key = key THEN [key |-> key, value |-> value] ELSE d[i]]
    ELSE Append(d, [key |-> key, value |-> value])

\* list(d.values())
DictValues(d) == [i \in 1..Len(d) |-> d[i].value]

\* d.get(key): the value in a list of one, or the empty list for None
DictGet(d, key) ==
    IF \E i \in 1..Len(d) : d[i].key = key
    THEN <<d[CHOOSE i \in 1..Len(d) : d[i].key = key].value>>
    ELSE <<>>

\* "for v in vehicles: self._vehicles[v._vehicle_id] = v"
RECURSIVE StoreAll(_, _, _)
StoreAll(cls, d, entities) ==
    IF Len(entities) = 0 THEN d
    ELSE StoreAll(cls, DictSetItem(d, Key(cls, entities[1]), entities[1]),
                  Tail(entities))

\* ---- the rows of the files loaded into a store, and the entities added
RepoVehicleRows == {row_bike, row_bike_again, row_ebike, row_no_id, row_one_cell}
RepoStationRows == {srow_valid, srow_valid_again, srow_padded, srow_no_id}

RepoFiles(cls) ==
    IF cls = "VehicleRepository"
    THEN {MissingFile} \cup
         {CsvFile(TRUE, HeaderFull, rows) : rows \in SeqsUpTo(RepoVehicleRows, MaxRows)}
    ELSE {MissingFile} \cup
         {CsvFile(TRUE, StationHeader, rows) : rows \in SeqsUpTo(RepoStationRows, MaxRows)}

Entities(cls) ==
    IF cls = "VehicleRepository"
    THEN {VehicleOfRow(HeaderFull, r).vehicle : r \in {row_bike, row_bike_again, row_ebike}}
    ELSE {StationOfRow(StationHeader, r).vehicle :
             r \in {srow_valid, srow_valid_again, srow_padded}}

\* The ids asked for: those of the entities and one that is never stored
Ids(cls) ==
    {Key(cls, e) : e \in Entities(cls)}
        \cup (IF cls = "VehicleRepository" THEN {<<"m", "i", "s", "s", "i", "n", "g">>}
              ELSE {999})

\* The loader a repository class calls
LoadEntities(cls, file) ==
    IF cls = "VehicleRepository" THEN load_vehicles_from_csv(file)
    ELSE load_stations_from_csv(file)

StoreLast(op, id, was_empty, ret, count, raised) ==
    [op |-> op, id |-> id, was_empty |-> was_empty, ret |-> ret, count |-> count,
     raised |-> raised]

\* VehicleRepository.__init__ / StationRepository.__init__
StoreInit ==
    /\ \E cls \in RepositoryClasses : store = [cls |-> cls, items |-> <<>>]
    /\ added = <<>>
    /\ store_last = StoreLast("none", <<>>, TRUE, <<>>, 0, "none")

\* add
StoreAdd ==
    /\ Len(added) < MaxAdds
    /\ \E entity \in Entities(store.cls) :
        /\ store' = [store EXCEPT
                        !.items = DictSetItem(@, Key(store.cls, entity), entity)]
        /\ added' = Append(added, entity)
        /\ store_last' = StoreLast("add", <<Key(store.cls, entity)>>,
                                   Len(store.items) = 0, <<>>, 0, "none")
    /\ UNCHANGED otherStoreVars

\* clear
StoreClear ==
    /\ store' = [store EXCEPT !.items = <<>>]
    /\ added' = <<>>
    /\ store_last' = StoreLast("clear", <<>>, Len(store.items) = 0, <<>>, 0, "none")
    /\ UNCHANGED otherStoreVars

\* get_by_id
StoreGetById ==
    /\ \E id \in Ids(store.cls) :
        store_last' = StoreLast("get_by_id", <<id>>, Len(store.items) = 0,
                                DictGet(store.items, id), 0, "none")
    /\ UNCHANGED <<store, added>>
    /\ UNCHANGED otherStoreVars

\* get_all
StoreGetAll ==
    /\ store_last' = StoreLast("get_all", <<>>, Len(store.items) = 0,
                               DictValues(store.items), 0, "none")
    /\ UNCHANGED <<store, added>>
    /\ UNCHANGED otherStoreVars

\* load_from_csv: an exception of the loader leaves the store as it was
StoreLoadFromCsv ==
    /\ \E file \in RepoFiles(store.cls) :
        LET loaded == LoadEntities(store.cls, file) IN
        /\ Len(added) + Len(file.rows) <= MaxAdds
        /\ IF loaded.raised # "none"
           THEN /\ UNCHANGED <<store, added>>
                /\ store_last' = StoreLast("load_from_csv", <<>>,
                                           Len(store.items) = 0, <<>>, 0, loaded.raised)
           ELSE /\ store' = [store EXCEPT
                               !.items = StoreAll(store.cls, @, loaded.entities)]
                /\ added' = added \o loaded.entities
                /\ store_last' = StoreLast("load_from_csv", <<>>,
                                           Len(store.items) = 0, <<>>,
                                           Len(loaded.entities), "none")
    /\ UNCHANGED otherStoreVars

StoreNext ==
    \/ StoreAdd
    \/ StoreClear
    \/ StoreGetById
    \/ StoreGetAll
    \/ StoreLoadFromCsv

(***************************************************************************)
(* 11. The ride (domain/models.py, class Ride)                             *)
(*                                                                         *)
(* Datetimes are those of section 5; the fee is kept in tenths, so that    *)
(* duration * 0.5 + distance * 0.2 is duration * 5 + distance * 2.         *)
(***************************************************************************)

\* RideStatus (tlvflow/domain/enums.py)
IN_PROGRESS == "in_progress"
COMPLETED   == "completed"

\* ---- the arguments tried
DurationArgs == {1}
DistanceArgs == {0, 3}

NoRide ==
    [built |-> FALSE, start_time |-> NoneTime, end_time |-> NoneTime,
     distance |-> 0, fee |-> 0, status |-> IN_PROGRESS]

\* Ride._validate_datetime on start_time: None is not a datetime.
RideInitRaises(start_time) == start_time.is_none

\* Ride.__init__ (the identifiers and the numbers valid)
Ride_init(start_time, end_time) ==
    [built |-> TRUE, start_time |-> start_time, end_time |-> end_time,
     distance |-> 0, fee |-> 0,
     status |-> IF ~end_time.is_none THEN COMPLETED ELSE IN_PROGRESS]

\* Ride.calculate_fee
calculate_fee(self, duration, distance) ==
    [self EXCEPT !.distance = distance, !.fee = duration * 5 + distance * 2]

\* Ride.end: "now = at or datetime.now(UTC)", made aware when naive.
EndTime(at, clock) == Normalize(IF at.is_none THEN NowUtc(clock) ELSE at)

\* Ride.end: what it raises.  Comparing the aware end time with a naive
\* start_time raises TypeError; two aware datetimes compare as instants.
RideEndRaisesMutant(self, at, clock) ==
    IF ~self.start_time.aware THEN "TypeError"
    ELSE IF ~AwareGE(EndTime(at, clock), self.start_time) THEN "ValueError"
    ELSE "none"

RideEndRaises(self, at, clock) ==
    IF ~self.end_time.is_none THEN "ValueError"
    ELSE IF ~self.start_time.aware THEN "TypeError"
    ELSE IF ~AwareGE(EndTime(at, clock), self.start_time) THEN "ValueError"
    ELSE "none"

\* Ride.end: the assignments made when nothing is raised.
Ride_end_mutant(self, at, clock) ==
    [self EXCEPT !.end_time = EndTime(at, clock)]

Ride_end(self, at, clock) ==
    [self EXCEPT !.end_time = EndTime(at, clock), !.status = COMPLETED]

\* Ride.status
Ride_status(self) == self.status

\* Ride.is_active
Ride_is_active(self) == self.end_time.is_none

RideLast(op, at, pre, clock, raised) ==
    [op |-> op, at |-> at, pre |-> pre, clock |-> clock, raised |-> raised]

RideIdle == the_ride = NoRide /\ ride_last = RideLast("none", NoneTime, NoRide, 0, "none")

RideInit == RideIdle

\* Ride(...) with any start_time and with or without end_time.
ConstructRide ==
    /\ ~the_ride.built
    /\ \E start_time \in DateTimes \cup {NoneTime}, end_time \in DateTimes \cup {NoneTime} :
        IF RideInitRaises(start_time)
        THEN /\ the_ride' = the_ride
             /\ ride_last' = RideLast("construct", end_time, the_ride, now, "ValueError")
        ELSE /\ the_ride' = Ride_init(start_time, end_time)
             /\ ride_last' = RideLast("construct", end_time, the_ride, now, "none")
    /\ UNCHANGED otherRideVars

RideEnd ==
    /\ the_ride.built
    /\ \E at \in DateTimes \cup {NoneTime} :
        /\ the_ride' = IF RideEndRaises(the_ride, at, now) # "none" THEN the_ride
                   ELSE Ride_end(the_ride, at, now)
        /\ ride_last' = RideLast("end", at, the_ride, now, RideEndRaises(the_ride, at, now))
    /\ UNCHANGED otherRideVars

CalculateFee ==
    /\ the_ride.built
    /\ \E duration \in DurationArgs, distance \in DistanceArgs :
        /\ the_ride' = calculate_fee(the_ride, duration, distance)
        /\ ride_last' = RideLast("calculate_fee", NoneTime, the_ride, now, "none")
    /\ UNCHANGED otherRideVars

\* The clock read by Ride.end moves on.
RideTick ==
    /\ now < MaxTime
    /\ now' = now + 1
    /\ UNCHANGED <<vehicleVars, stationVars, userVars, pwVars, pro, lic_last, repoVars, extVars>>

RideNext ==
    \/ ConstructRide
    \/ RideEnd
    \/ CalculateFee
    \/ RideTick

(***************************************************************************)
(* 12. Dock calls in flight at once (domain/stations.py, Station.dock)      *)
(*                                                                         *)
(* Station.dock reads is_full and then appends; nothing in the class or    *)
(* its callers holds a lock, so between the two another call may run.      *)
(* Each call is followed through its two steps.                            *)
(***************************************************************************)

\* ---- bound of this component
MaxOverfill == 1    \* calls are started while the station holds fewer than
                    \* capacity + MaxOverfill vehicles

DockCalls == {1, 2}
RaceVehicles == {"V1", "V2"}

NoCall == [pc |-> "idle", vehicle |-> "V1"]

RaceIdle == calls = [c \in DockCalls |-> NoCall]

\* A station as constructed, holding the first n of three vehicles.
RaceInit ==
    /\ \E capacity \in 1..MaxCapacity, n \in 0..3 :
        /\ n <= capacity
        /\ station = [built |-> TRUE, capacity |-> capacity,
                      vehicles |-> SubSeq(<<"V3", "V2", "V1">>, 1, n)]
        /\ st_last = StLast("construct", capacity,
                            SubSeq(<<"V3", "V2", "V1">>, 1, n), "V1", NoStation, FALSE)
        /\ st_prev = StLast("none", 0, <<>>, "V1", NoStation, FALSE)
    /\ RaceIdle

\* dock(vehicle) is called.
DockEnter ==
    /\ Len(station.vehicles) < station.capacity + MaxOverfill
    /\ \E c \in DockCalls, v \in RaceVehicles :
        /\ calls[c].pc = "idle"
        /\ calls' = [calls EXCEPT ![c] = [pc |-> "entered", vehicle |-> v]]
    /\ UNCHANGED <<station, otherRaceVars>>

\* "if self.is_full: raise ValueError"
DockCheckFull ==
    /\ \E c \in DockCalls :
        /\ calls[c].pc = "entered"
        /\ calls' = [calls EXCEPT ![c].pc =
                        IF is_full(station) THEN "raised" ELSE "passed"]
    /\ UNCHANGED <<station, otherRaceVars>>

\* "self._vehicles.append(vehicle)"
DockAppend ==
    /\ \E c \in DockCalls :
        /\ calls[c].pc = "passed"
        /\ station' = [station EXCEPT !.vehicles = Append(@, calls[c].vehicle)]
        /\ calls' = [calls EXCEPT ![c].pc = "returned"]
    /\ UNCHANGED otherRaceVars

\* The call is over: its caller has the result or the ValueError.
DockLeave ==
    /\ \E c \in DockCalls :
        /\ calls[c].pc \in {"raised", "returned"}
        /\ calls' = [calls EXCEPT ![c] = NoCall]
    /\ UNCHANGED <<station, otherRaceVars>>

RaceNext ==
    \/ DockEnter
    \/ DockCheckFull
    \/ DockAppend
    \/ DockLeave

(***************************************************************************)
(* 13. The two User classes (domain/users.py and domain/models.py)         *)
(*                                                                         *)
(* models.py defines User a second time.  One object of each class is      *)
(* given the same calls.                                                   *)
(***************************************************************************)

\* models.User.__init__
models_User_init == [ride_history |-> <<>>, current_ride |-> NoneRide]

\* models.User.start_ride
models_StartRideRaises(self, ride) == ~Is(self.current_ride, NoneRide)

models_start_ride(self, ride) == [self EXCEPT !.current_ride = ride]

\* models.User.end_ride
models_EndRideRaises(self, ride) ==
    \/ Is(self.current_ride, NoneRide)
    \/ ~Is(ride, self.current_ride)

models_end_ride(self, ride) ==
    [self EXCEPT !.ride_history = Append(@, ride), !.current_ride = NoneRide]

\* models.User.can_rent: isinstance(vehicle, Bike)
models_User_can_rent_mutant(kind) == kind # "EBike"

models_User_can_rent(kind) == kind = "Bike"

TwinLast(op, arg, users_ret, models_ret) ==
    [op |-> op, arg |-> arg, users_ret |-> users_ret, models_ret |-> models_ret]

Twin(users_user, models_user, last) ==
    [users |-> users_user, models |-> models_user, last |-> last]

TwinIdle == twin = Twin(User_init, models_User_init, TwinLast("none", "None", FALSE, FALSE))

TwinInit == TwinIdle

\* start_ride(ride) on both; the result kept is whether the call raised.
TwinStartRide ==
    /\ Len(twin.users.ride_history) < MaxHistory
    /\ Len(twin.models.ride_history) < MaxHistory
    /\ \E ride \in RideArgs :
        twin' = Twin(IF StartRideRaises(twin.users, ride) THEN twin.users
                     ELSE start_ride(twin.users, ride),
                     IF models_StartRideRaises(twin.models, ride) THEN twin.models
                     ELSE models_start_ride(twin.models, ride),
                     TwinLast("start_ride", ride.ride_id,
                              StartRideRaises(twin.users, ride),
                              models_StartRideRaises(twin.models, ride)))
    /\ UNCHANGED otherTwinVars

\* end_ride(ride) on both
TwinEndRide ==
    /\ \E ride \in RideArgs :
        twin' = Twin(IF EndRideRaises(twin.users, ride) THEN twin.users
                     ELSE end_ride(twin.users, ride),
                     IF models_EndRideRaises(twin.models, ride) THEN twin.models
                     ELSE models_end_ride(twin.models, ride),
                     TwinLast("end_ride", ride.ride_id,
                              EndRideRaises(twin.users, ride),
                              models_EndRideRaises(twin.models, ride)))
    /\ UNCHANGED otherTwinVars

\* can_rent(vehicle) on both, for a vehicle of each class
TwinCanRent ==
    /\ \E kind \in VehicleKinds :
        twin' = Twin(twin.users, twin.models,
                     TwinLast("can_rent", kind, User_can_rent(kind),
                              models_User_can_rent(kind)))
    /\ UNCHANGED otherTwinVars

TwinNext ==
    \/ TwinStartRide
    \/ TwinEndRide
    \/ TwinCanRent

(***************************************************************************)
(* Specifications: one per component; the other components stay idle       *)
(***************************************************************************)
VehicleIdle == vehicle = NoVehicle /\ v_last = VLast("none", NoneReports, NoVehicle, FALSE, FALSE)
StationIdle == /\ station = NoStation
               /\ st_last = StLast("none", 0, <<>>, "V1", NoStation, FALSE)
               /\ st_prev = StLast("none", 0, <<>>, "V1", NoStation, FALSE)
UserIdle    == /\ user = User_init
               /\ u_last = ULast("none", NoneRide, User_init, FALSE)
               /\ rep_last = NoReportCall
               /\ snapshot = NoSnapshot
               /\ viewed = <<>>
               /\ ended = <<>>
PwIdle      == pw_hash = NoUser /\ pw_last = PwLast("none", <<>>, <<>>, FALSE, "none")
LicIdle     == /\ pro = [license_expiry |-> NoneTime]
               /\ now = 0
               /\ lic_last = LicLast("none", "Pro", NoneTime, "Bike", 0, FALSE)
RepoIdle    == /\ repo = <<>>
               /\ nr_last = NrLast("none", 0, 0, TRUE, NoneStation)
               /\ first_seen = <<>>
CoreIdle    == VehicleIdle /\ StationIdle /\ UserIdle /\ PwIdle /\ LicIdle /\ RepoIdle
ApiIdle     == ApiInit
CsvIdle     == csv_last = CsvLast("none", MissingFile, Loaded("none", <<>>))
RegIdle     == reg_last = RegLast("none", NoRegArgs, NoRegistered)
StoreIdle   == /\ store = [cls |-> "VehicleRepository", items |-> <<>>]
               /\ added = <<>>
               /\ store_last = StoreLast("none", <<>>, TRUE, <<>>, 0, "none")
LateIdle    == RideIdle /\ RaceIdle /\ TwinIdle
ExtIdle     == ApiIdle /\ CsvIdle /\ RegIdle /\ StoreIdle /\ LateIdle

InitVehicle  == VehicleInit /\ StationIdle /\ UserIdle /\ PwIdle /\ LicIdle /\ RepoIdle /\ ExtIdle
InitStation  == VehicleIdle /\ StationInit /\ UserIdle /\ PwIdle /\ LicIdle /\ RepoIdle /\ ExtIdle
InitUser     == /\ VehicleIdle /\ StationIdle /\ UserInit /\ LicIdle /\ RepoIdle /\ ExtIdle
                /\ pw_hash = RegisteredUser
                /\ pw_last = PwLast("none", <<>>, <<>>, FALSE, "none")
InitPassword == VehicleIdle /\ StationIdle /\ UserIdle /\ PwInit /\ LicIdle /\ RepoIdle /\ ExtIdle
InitLicence  == VehicleIdle /\ StationIdle /\ UserIdle /\ PwIdle /\ LicInit /\ RepoIdle /\ ExtIdle
InitNearest  == VehicleIdle /\ StationIdle /\ UserIdle /\ PwIdle /\ LicIdle /\ RepoInit /\ ExtIdle
InitApi      == CoreIdle /\ ApiInit /\ CsvIdle /\ RegIdle /\ StoreIdle /\ LateIdle
InitCsv      == CoreIdle /\ ApiIdle /\ CsvInit /\ RegIdle /\ StoreIdle /\ LateIdle
InitRegister == CoreIdle /\ ApiIdle /\ CsvIdle /\ RegInit /\ StoreIdle /\ LateIdle
InitRepository == CoreIdle /\ ApiIdle /\ CsvIdle /\ RegIdle /\ StoreInit /\ LateIdle

SpecVehicle  == InitVehicle /\ [][VehicleNext]_vars
SpecStation  == InitStation /\ [][StationNext]_vars
SpecUser     == InitUser /\ [][UserNext \/ UserLogin]_vars
SpecPassword == InitPassword /\ [][PwNext]_vars
SpecLicence  == InitLicence /\ [][LicNext]_vars
SpecNearest  == InitNearest /\ [][RepoNext]_vars
SpecApi      == InitApi /\ [][ApiNext]_vars
SpecCsv      == InitCsv /\ [][CsvNext]_vars
SpecRegister == InitRegister /\ [][RegNext]_vars
InitRide     == CoreIdle /\ ApiIdle /\ CsvIdle /\ RegIdle /\ StoreIdle /\ RideInit /\ RaceIdle /\ TwinIdle
InitRace     == /\ VehicleIdle /\ UserIdle /\ PwIdle /\ LicIdle /\ RepoIdle
                /\ ApiIdle /\ CsvIdle /\ RegIdle /\ StoreIdle /\ RideIdle
                /\ RaceInit /\ TwinIdle
InitTwin     == CoreIdle /\ ApiIdle /\ CsvIdle /\ RegIdle /\ StoreIdle /\ RideIdle /\ RaceIdle /\ TwinInit
SpecRepository == InitRepository /\ [][StoreNext]_vars
\* The domain entities with rejecting operations: a run exercises the
\* user or the station.
InitDomain   == InitUser
DomainNext ==
    \/ StationIdle /\ (UserNext \/ UserLogin)
    \/ UserIdle /\ StationNext
SpecDomain   == InitDomain /\ [][DomainNext]_vars
SpecRide     == InitRide /\ [][RideNext]_vars
SpecRace     == InitRace /\ [][RaceNext]_vars
SpecTwin     == InitTwin /\ [][TwinNext]_vars

(***************************************************************************)
(* Properties                                                              *)
(***************************************************************************)

\* A report that references the vehicle with identity id.
ReportMatches(report, id) == "vehicle_id" \in DOMAIN report /\ report.vehicle_id = id

\* C1: check_maintenance_needed(reports) returns true if and only if
\* ride_count - last_maintenance_ride_count >= 10, or some report of the list
\* references this vehicle's id, or the vehicle is an EBike/Scooter with
\* battery_level < 20.  (SpecVehicle)
C1_MaintenanceNeededIff ==
    v_last.op = "check" =>
        v_last.ret =
            (\/ vehicle.ride_count - vehicle.last_maintenance_ride_count >= 10
             \/ \E i \in 1..Len(v_last.reports.items) :
                    ReportMatches(v_last.reports.items[i], vehicle.vehicle_id)
             \/ (vehicle.kind \in {"EBike", "Scooter"} /\ vehicle.battery_level < 20))

\* C1 witnesses: exactly 10 rides since maintenance on a Bike with no report
\* is due; a Bike with 9 rides and reports for another vehicle and without an
\* id is not.
C1_Witness ==
    /\ v_last.op = "check"
    /\ vehicle.kind = "Bike"
    /\ vehicle.ride_count - vehicle.last_maintenance_ride_count = 10
    /\ ~Truthy(v_last.reports)
    /\ v_last.ret

\* C2: the number of docked vehicles never exceeds capacity; construction
\* with more initial vehicles than capacity fails; dock on a full station
\* fails; undock of a vehicle not docked in the station fails.  (SpecStation)
C2_CapacityRespected ==
    /\ station.built => Len(station.vehicles) <= station.capacity
    /\ (st_last.op = "construct" /\ Len(st_last.arg) > st_last.capacity)
           => (st_last.raised /\ ~station.built)
    /\ (st_last.op = "dock" /\ Len(st_last.pre.vehicles) = st_last.pre.capacity)
           => st_last.raised
    /\ (st_last.op = "undock"
          /\ \A i \in 1..Len(st_last.pre.vehicles) :
                st_last.pre.vehicles[i] # st_last.vehicle)
           => st_last.raised

\* C2 witness: a dock call on a full station has just been rejected.
C2_Witness ==
    /\ st_last.op = "dock"
    /\ st_last.raised
    /\ Len(station.vehicles) = station.capacity
    /\ station.capacity > 1

\* C3: start_ride while a ride is active fails; end_ride with no active ride
\* fails; end_ride with an object that is not the identical active ride
\* fails; a successful end_ride appends exactly that ride to ride_history and
\* clears current_ride.  (SpecUser)
C3_OneActiveRide ==
    /\ (u_last.op = "start_ride" /\ u_last.pre.current_ride # NoneRide)
           => u_last.raised
    /\ (u_last.op = "end_ride" /\ u_last.pre.current_ride = NoneRide)
           => u_last.raised
    /\ (u_last.op = "end_ride" /\ u_last.ride.oid # u_last.pre.current_ride.oid)
           => u_last.raised
    /\ (u_last.op = "end_ride" /\ ~u_last.raised)
           => /\ user.ride_history = u_last.pre.ride_history \o <<u_last.ride>>
              /\ user.current_ride = NoneRide

\* C3 witness: an end_ride with an equal but not identical ride object was
\* rejected after an earlier ride had been moved to the history.
C3_Witness ==
    /\ u_last.op = "end_ride"
    /\ u_last.raised
    /\ u_last.ride.ride_id = user.current_ride.ride_id
    /\ u_last.ride.oid # user.current_ride.oid
    /\ Len(user.ride_history) = 1

\* C4: verifying a password against the hash produced from a password of at
\* least 8 characters returns true for that password and false for any other
\* one, and login returns the verification result against the stored hash.
\* (SpecPassword)
C4_PasswordRoundTrip ==
    /\ pw_last.op \in {"verify", "login"} =>
          \A p \in Passwords, sa \in Salts :
              (Len(p) >= 8 /\ pw_last.stored_hash = hash_password(p, sa))
                  => /\ pw_last.raised = "none"
                     /\ pw_last.ret = (pw_last.password = p)
    /\ pw_last.op = "login" =>
          /\ pw_last.stored_hash = pw_hash.password_hash
          /\ PwOutcome(pw_last.ret, pw_last.raised)
                 = verify_password(pw_last.password, pw_hash.password_hash)

\* C4 witness: a user registered with a password of exactly 8 characters has
\* logged in with it.
C4_Witness ==
    /\ pw_last.op = "login"
    /\ pw_last.ret
    /\ Len(pw_last.password) = 8
    /\ pw_last.stored_hash \in HashedPasswords

\* A stored hash that is malformed in the sense of C5.
Malformed(stored_hash) ==
    LET parts == Split(stored_hash, "$", -1) IN
    \/ Len(parts) # 4
    \/ parts[1] # PWD_ALGO
    \/ ~ParseInt(parts[2]).ok
    \/ parts[3] = <<>>
    \/ parts[4] = <<>>
    \/ ~B64Decode(Pad(parts[3])).ok
    \/ ~B64Decode(Pad(parts[4])).ok

\* C5: for every malformed stored hash (wrong number of fields, wrong tag,
\* non-numeric iteration count, undecodable or empty salt or key field),
\* verification and login return false and never raise.  (SpecPassword)
C5_MalformedIsFalse ==
    (pw_last.op \in {"verify", "login"} /\ Malformed(pw_last.stored_hash))
        => (pw_last.raised = "none" /\ ~pw_last.ret)

\* C5 case: login raised on a stored hash the constructor accepted whose salt
\* and key fields are both empty.
C5_Witness ==
    /\ pw_last.op = "login"
    /\ pw_hash.built
    /\ pw_hash.password_hash = Join(<<PWD_ALGO, <<"1">>, <<>>, <<>>>>, "$")
    /\ pw_last.raised = "ValueError"

\* The fields _verify_password unpacks from a stored hash.
VerifyFields(stored_hash) == Split(stored_hash, "$", 3)

UtcInstant(dt) == dt.wall - (IF dt.aware THEN dt.off ELSE 0)

\* C7: validate_license(at=T) is true if and only if license_expiry >= T
\* once both are read in UTC, a naive timestamp on either side taken as UTC;
\* an expiry equal to T is valid; without T the current UTC time is used.
\* (SpecLicence)
C7_LicenceValidIff ==
    lic_last.op = "validate_license" =>
        lic_last.ret = (UtcInstant(pro.license_expiry) >=
                           (IF lic_last.at.is_none THEN lic_last.clock
                                                   ELSE UtcInstant(lic_last.at)))

\* C7 witness: a naive T equal to the instant of an aware expiry at UTC+2 is
\* valid.
C7_Witness ==
    /\ lic_last.op = "validate_license"
    /\ ~lic_last.at.is_none
    /\ ~lic_last.at.aware
    /\ pro.license_expiry.aware
    /\ pro.license_expiry.off = 2
    /\ UtcInstant(pro.license_expiry) = lic_last.at.wall
    /\ lic_last.ret

\* C8: a base/Amateur user can rent exactly the Bike; a Pro user can rent
\* every kind exactly when license_expiry >= now, and none, the Bike
\* included, once the licence has expired.  (SpecLicence)
C8_RentPermission ==
    lic_last.op = "can_rent" =>
        IF lic_last.user_kind = "Pro"
        THEN lic_last.ret = (UtcInstant(pro.license_expiry) >= lic_last.clock)
        ELSE lic_last.ret = (lic_last.vehicle = "Bike")

\* C8 witness: a Pro user whose licence has expired was refused a Bike.
C8_Witness ==
    /\ lic_last.op = "can_rent"
    /\ lic_last.user_kind = "Pro"
    /\ lic_last.vehicle = "Bike"
    /\ UtcInstant(pro.license_expiry) < lic_last.clock
    /\ ~lic_last.ret

\* C9: complete_maintenance is idempotent: after one call a second call
\* leaves the vehicle as it is and check_maintenance_needed answers the same
\* for every report list.  (SpecVehicle)
C9_CompleteMaintenanceIdempotent ==
    v_last.op = "complete_maintenance" =>
        /\ complete_maintenance(vehicle) = vehicle
        /\ \A reports \in ReportsArgs :
              check_maintenance_needed(complete_maintenance(vehicle), reports)
                  = check_maintenance_needed(vehicle, reports)

\* C9 witness: maintenance that was due by ride count has been completed.
C9_Witness ==
    /\ v_last.op = "complete_maintenance"
    /\ v_last.pre.ride_count - v_last.pre.last_maintenance_ride_count >= 10
    /\ vehicle.last_maintenance_ride_count = vehicle.ride_count
    /\ vehicle.ride_count > 0

\* The squared distance of C10, written out.
SquaredDistance(st, lon, lat) ==
    (st.longitude - lon) * (st.longitude - lon) + (st.latitude - lat) * (st.latitude - lat)

\* C10: find_nearest_station returns none if and only if the repository
\* holds no stations; otherwise it returns a station of the repository whose
\* squared distance to the query point is at most that of every station in
\* it, whatever the order in which the stations were added.  (SpecNearest)
C10_NearestIsMinimal ==
    nr_last.op = "find_nearest" =>
        /\ nr_last.is_none <=> Len(repo) = 0
        /\ ~nr_last.is_none =>
              /\ \E i \in 1..Len(repo) : repo[i] = nr_last.station
              /\ \A i \in 1..Len(repo) :
                    SquaredDistance(nr_last.station, nr_last.lon, nr_last.lat)
                        <= SquaredDistance(repo[i], nr_last.lon, nr_last.lat)

\* C10 witness: with three stations held, the nearest one is the one added
\* last, strictly nearer than the others.
C10_Witness ==
    /\ nr_last.op = "find_nearest"
    /\ Len(repo) = 3
    /\ nr_last.station = repo[3]
    /\ \A i \in 1..2 :
          SquaredDistance(repo[i], nr_last.lon, nr_last.lat)
              > SquaredDistance(repo[3], nr_last.lon, nr_last.lat)

\* C11: the nearest-station endpoint answers 422 when lon or lat is missing
\* or outside [-180,180] / [-90,90]; otherwise 500 when no StationRepository
\* is installed on the application state; otherwise 404 when the repository
\* holds no stations; otherwise 200 with the fields of a nearest station.
\* (SpecApi)
C11_OneOutcome ==
    http_last.op = "nearest_station" =>
        LET lon == http_last.lon
            lat == http_last.lat
            invalid == \/ ~lon.present
                       \/ ~lat.present
                       \/ lon.value \notin -180..180
                       \/ lat.value \notin -90..90
            installed == app.station_repository = "StationRepository"
            r == http_last.response
        IN /\ r.status_code = IF invalid THEN 422
                              ELSE IF ~installed THEN 500
                              ELSE IF Len(app.stations) = 0 THEN 404
                              ELSE 200
           /\ r.status_code = 200 =>
                \E i \in 1..Len(app.stations) :
                    /\ \A j \in 1..Len(app.stations) :
                          SquaredDistance(app.stations[i], lon.value, lat.value)
                              <= SquaredDistance(app.stations[j], lon.value, lat.value)
                    /\ r.data.station_id = app.stations[i].station_id
                    /\ r.data.name = app.stations[i].name
                    /\ r.data.lat = app.stations[i].latitude
                    /\ r.data.lon = app.stations[i].longitude
                    /\ r.data.max_capacity = app.stations[i].capacity
                    /\ r.data.available_slots
                          = app.stations[i].capacity - Len(app.stations[i].vehicles)
                    /\ r.data.is_full
                          = (Len(app.stations[i].vehicles) = app.stations[i].capacity)
                    /\ r.data.is_empty = (Len(app.stations[i].vehicles) = 0)

\* C11 witness: a request on the boundary of both ranges was answered 404 by
\* an installed but empty repository.
C11_Witness ==
    /\ http_last.op = "nearest_station"
    /\ http_last.lon = Param(-180)
    /\ http_last.lat = Param(90)
    /\ app.station_repository = "StationRepository"
    /\ Len(app.stations) = 0
    /\ http_last.response.status_code = 404

\* C12: in every state reached by dock/undock the derived fields agree with
\* the docked collection: available_slots = capacity - number docked, is_full
\* exactly when the number docked equals capacity, is_empty exactly when
\* nothing is docked, and 0 <= available_slots <= capacity.  (SpecStation)
C12_DerivedFieldsAgree ==
    station.built =>
        /\ available_slots(station) = station.capacity - Len(station.vehicles)
        /\ is_full(station) <=> (Len(station.vehicles) = station.capacity)
        /\ is_empty(station) <=> (Len(station.vehicles) = 0)
        /\ 0 <= available_slots(station)
        /\ available_slots(station) <= station.capacity

\* C12 witness: an undock emptied a station that a dock had filled.
C12_Witness ==
    /\ st_last.op = "undock"
    /\ ~st_last.raised
    /\ is_full(st_last.pre)
    /\ is_empty(station)
    /\ available_slots(station) = station.capacity

\* A field of a row as the feed's reader sees it: missing when the row is too
\* short for its column or the cell is blank.
FieldMissing(header, cells, column) ==
    \/ RowGet(header, cells, column, <<>>).none
    \/ Len(Strip(RowGet(header, cells, column, <<>>).text)) = 0

FieldText(header, cells, column) == Lower(Strip(RowGet(header, cells, column, <<>>).text))

Numeric(text) == ParseInt(text).ok

\* A valid row of the vehicles feed: an id, a known vehicle type, a status
\* that is blank or one of the four statuses, counters that are blank or
\* numeric (the battery counts for the electric types only).
ValidVehicleRow(header, cells) ==
    /\ ~FieldMissing(header, cells, "vehicle_id")
    /\ FieldText(header, cells, "vehicle_type")
           \in {str_bicycle, str_electric_bicycle, str_scooter}
    /\ FieldMissing(header, cells, "status")
           \/ FieldText(header, cells, "status") \in VALID_STATUSES
    /\ FieldMissing(header, cells, "rides_since_last_treated")
           \/ Numeric(FieldText(header, cells, "rides_since_last_treated"))
    /\ FieldText(header, cells, "vehicle_type") = str_bicycle
           \/ FieldMissing(header, cells, "battery_level")
           \/ Numeric(FieldText(header, cells, "battery_level"))

\* A valid row of the stations feed: every field present and parsable.
ValidStationRow(header, cells) ==
    /\ \A i \in 1..Len(StationHeader) : ~FieldMissing(header, cells, StationHeader[i])
    /\ \A column \in {"station_id", "lat", "lon", "max_capacity"} :
           Numeric(FieldText(header, cells, column))

\* The ids of the valid rows of a file, in file order.
ValidIds(file, column, valid_rows) ==
    LET rows == SelectSeq(file.rows, LAMBDA cells : cells \in valid_rows)
    IN [i \in 1..Len(rows) |-> Strip(RowGet(file.header, rows[i], column, <<>>).text)]

ValidVehicleRows(file) == {cells \in VehicleRows : ValidVehicleRow(file.header, cells)}

ValidStationRows(file) == {cells \in StationRows : ValidStationRow(file.header, cells)}

\* C13: ingestion of a file with N valid and M invalid rows returns exactly
\* the N entities of the valid rows, in file order, skipping every invalid row
\* without aborting; a missing file or a file without header returns no
\* entities; nothing raises.  (SpecCsv)
C13_IngestionSkipsInvalidRows ==
    /\ csv_last.op = "load_vehicles_from_csv" =>
          /\ csv_last.outcome.raised = "none"
          /\ [i \in 1..Len(csv_last.outcome.entities) |->
                 csv_last.outcome.entities[i].vehicle_id]
                 = ValidIds(csv_last.file, "vehicle_id", ValidVehicleRows(csv_last.file))
    /\ csv_last.op = "load_stations_from_csv" =>
          /\ csv_last.outcome.raised = "none"
          /\ [i \in 1..Len(csv_last.outcome.entities) |->
                 IntToStr(csv_last.outcome.entities[i].station_id)]
                 = ValidIds(csv_last.file, "station_id", ValidStationRows(csv_last.file))

\* C13 case: a file whose first row ends after the id and whose second row is
\* valid made the vehicles loader raise instead of returning one vehicle.
C13_Witness ==
    /\ csv_last.op = "load_vehicles_from_csv"
    /\ csv_last.file.rows = <<row_one_cell, row_bike>>
    /\ csv_last.outcome.raised = "AttributeError"
    /\ Len(csv_last.outcome.entities) = 0

\* C14: every vehicle, whether constructed directly or loaded from a feed row
\* with any integer rides_since_last_treated, and after any rides and
\* complete_maintenance calls, has ride_count >= last_maintenance_ride_count.
\* (SpecVehicle)
C14_RideCountAtLeastBaseline ==
    vehicle # NoVehicle => vehicle.ride_count >= vehicle.last_maintenance_ride_count

\* C14 case: a feed row with a negative rides_since_last_treated was loaded,
\* leaving the ride count below the maintenance baseline of zero.
C14_Witness ==
    /\ v_last.op = "load"
    /\ vehicle # NoVehicle
    /\ vehicle.ride_count < 0
    /\ vehicle.last_maintenance_ride_count = 0

\* The fields of a registration other than the licence are valid: they pass
\* the validators of User.__init__ and the password is long enough to hash.
OtherFieldsValid(args) ==
    /\ ~ValidateNameRaises(args.name)
    /\ ~ValidateEmailRaises(args.email)
    /\ ~HashPasswordRaises(args.password)
    /\ ~ValidatePaymentMethodIdRaises(args.payment_method_id)
    /\ Falsy(args.user_id) \/ ~ValidateUserIdRaises(args.user_id.text)

\* C15 as stated: ProUser.register fails, creating no user, whenever
\* license_number is missing or empty or license_expiry is null, whatever the
\* other fields; with both present and all other fields valid it yields a Pro
\* user.  (SpecRegister)
C15_RegisterRequiresLicence_Original ==
    reg_last.op = "ProUser.register" =>
        /\ Falsy(reg_last.args.license_number) \/ reg_last.args.license_expiry.is_none
               => reg_last.user = NoRegistered
        /\ (/\ ~Falsy(reg_last.args.license_number)
            /\ ~reg_last.args.license_expiry.is_none
            /\ OtherFieldsValid(reg_last.args))
               => reg_last.user.kind = "ProUser"

\* C15 amended: ProUser.register fails, creating no user, whenever
\* license_number is missing or empty or license_expiry is null, whatever the
\* other fields; with a license_number that has a non-blank character, a
\* non-null license_expiry and all other fields valid it yields a Pro user.
\* (SpecRegister)
C15_RegisterRequiresLicence ==
    reg_last.op = "ProUser.register" =>
        /\ Falsy(reg_last.args.license_number) \/ reg_last.args.license_expiry.is_none
               => reg_last.user = NoRegistered
        /\ (/\ ~reg_last.args.license_number.none
            /\ \E i \in 1..Len(reg_last.args.license_number.text) :
                   reg_last.args.license_number.text[i] # " "
            /\ ~reg_last.args.license_expiry.is_none
            /\ OtherFieldsValid(reg_last.args))
               => reg_last.user.kind = "ProUser"

\* C15 case: a registration with a padded licence number and every other
\* field valid built a Pro user, after the user id was generated.
C15_Witness ==
    /\ reg_last.op = "ProUser.register"
    /\ reg_last.args.license_number = Cell(license_padded)
    /\ Falsy(reg_last.args.user_id)
    /\ reg_last.user.kind = "ProUser"
    /\ reg_last.user.license_number = license_123
    /\ reg_last.user.user_id \in Uuids

\* C16: report_vehicle_issue fails whenever ride_id or vehicle_id is missing
\* or empty; otherwise its payload always holds ride_id and vehicle_id, holds
\* image_url exactly when a non-empty image_url was given and description
\* exactly when a non-empty description was given; the call changes no user
\* state (current_ride and ride_history).  (SpecUser)
C16_ReportPayload ==
    u_last.op = "report_vehicle_issue" =>
        /\ user.current_ride = u_last.pre.current_ride
        /\ user.ride_history = u_last.pre.ride_history
        /\ (\E id \in {rep_last.ride_id, rep_last.vehicle_id} :
                id.none \/ id.text = <<>>)
               => u_last.raised /\ rep_last.payload = NoPayload
        /\ (\A id \in {rep_last.ride_id, rep_last.vehicle_id} :
                ~id.none /\ id.text # <<>>)
               => /\ ~u_last.raised
                  /\ {"ride_id", "vehicle_id"} \subseteq DOMAIN rep_last.payload
                  /\ DOMAIN rep_last.payload
                         \subseteq {"ride_id", "vehicle_id", "image_url", "description"}
                  /\ rep_last.payload["ride_id"] = rep_last.ride_id.text
                  /\ rep_last.payload["vehicle_id"] = rep_last.vehicle_id.text
                  /\ "image_url" \in DOMAIN rep_last.payload
                         <=> (~rep_last.image_url.none /\ rep_last.image_url.text # <<>>)
                  /\ "description" \in DOMAIN rep_last.payload
                         <=> (~rep_last.description.none
                                 /\ rep_last.description.text # <<>>)
                  /\ "image_url" \in DOMAIN rep_last.payload
                         => rep_last.payload["image_url"] = rep_last.image_url.text
                  /\ "description" \in DOMAIN rep_last.payload
                         => rep_last.payload["description"] = rep_last.description.text

\* C16 case: a report made during an active ride, with an image and an empty
\* description, returned three keys and left the ride and the history alone.
C16_Witness ==
    /\ u_last.op = "report_vehicle_issue"
    /\ ~u_last.raised
    /\ user.current_ride # NoneRide
    /\ Len(user.ride_history) > 0
    /\ DOMAIN rep_last.payload = {"ride_id", "vehicle_id", "image_url"}
    /\ rep_last.description = Cell(<<>>)

\* The entity most recently put into the store under an id since the last
\* clear, in a list of one; the empty list when there is none.
LatestAdded(id) ==
    LET at == {i \in 1..Len(added) : Key(store.cls, added[i]) = id}
    IN IF at = {} THEN <<>>
       ELSE <<added[CHOOSE i \in at : \A j \in at : j <= i]>>

\* C17: add is add-or-replace keyed by identity: get_by_id(id) returns the
\* entity most recently added under that id since the last clear, or none;
\* get_all holds exactly one entry per distinct id added since the last
\* clear; clear leaves the repository empty.  (SpecRepository)
C17_AddOrReplace ==
    /\ store_last.op = "get_by_id" => store_last.ret = LatestAdded(store_last.id[1])
    /\ store_last.op = "get_all" =>
          /\ \A i, j \in 1..Len(store_last.ret) :
                 Key(store.cls, store_last.ret[i]) = Key(store.cls, store_last.ret[j])
                     => i = j
          /\ {Key(store.cls, store_last.ret[i]) : i \in 1..Len(store_last.ret)}
                 = {Key(store.cls, added[i]) : i \in 1..Len(added)}
          /\ \A i \in 1..Len(store_last.ret) :
                 <<store_last.ret[i]>> = LatestAdded(Key(store.cls, store_last.ret[i]))
    /\ store_last.op = "clear" =>
          /\ DictValues(store.items) = <<>>
          /\ \A id \in Ids(store.cls) : DictGet(store.items, id) = <<>>

\* C17 case: an id was added twice with different entities and a third id
\* once; get_by_id then returned the second entity of the repeated id.
C17_Witness ==
    /\ store_last.op = "get_by_id"
    /\ Len(added) = 3
    /\ Len(store.items) = 2
    /\ Key(store.cls, added[1]) = store_last.id[1]
    /\ Key(store.cls, added[3]) = store_last.id[1]
    /\ added[1] # added[3]
    /\ store_last.ret = <<added[3]>>

\* C18: after load_from_csv on an empty repository the returned count equals
\* the number of entities the repository holds, len(get_all()), for every
\* file, also one in which several valid rows carry the same id.
\* (SpecRepository)
C18_CountIsHeld ==
    (/\ store_last.op = "load_from_csv"
     /\ store_last.was_empty
     /\ store_last.raised = "none")
        => store_last.count = Len(DictValues(store.items))

\* C18 case: a vehicles file with two valid rows of the same id was loaded
\* into an empty repository: the call returned 2 and the repository holds 1.
C18_Witness ==
    /\ store_last.op = "load_from_csv"
    /\ store.cls = "VehicleRepository"
    /\ store_last.was_empty
    /\ store_last.raised = "none"
    /\ store_last.count = 2
    /\ Len(DictValues(store.items)) = 1

\* The number of "$" in a stored hash, and the text before the first one.
Dollars(s) == Cardinality({i \in 1..Len(s) : s[i] = "$"})

Tag(s) ==
    SubSeq(s, 1, Cardinality({i \in 1..Len(s) : \A j \in 1..i : s[j] # "$"}))

\* C19: constructing a User fails whenever the password_hash is empty, does
\* not consist of exactly four "$"-separated fields, or has an algorithm tag
\* other than pbkdf2_sha256; every hash the hashing function produces for a
\* password of at least 8 characters is accepted by the constructor; hashing
\* a password shorter than 8 characters fails.  (SpecPassword)
C19_HashShapeEnforced ==
    /\ (/\ pw_last.op = "construct"
        /\ \/ pw_last.stored_hash = <<>>
           \/ Dollars(pw_last.stored_hash) # 3
           \/ Tag(pw_last.stored_hash) # PWD_ALGO)
          => (pw_last.raised = "ValueError" /\ ~pw_hash.built)
    /\ (pw_last.op = "construct" /\ pw_last.stored_hash \in HashedPasswords)
          => (pw_last.raised = "none" /\ pw_hash.built
                 /\ pw_hash.password_hash = pw_last.stored_hash)
    /\ pw_last.op = "register" =>
          IF Len(pw_last.password) >= 8
          THEN /\ pw_last.raised = "none"
               /\ pw_hash.built
               /\ pw_hash.password_hash \in HashedPasswords
          ELSE pw_last.raised = "ValueError" /\ ~pw_hash.built

\* C19 case: a stored hash with the right tag and five fields was refused by
\* the constructor.
C19_Witness ==
    /\ pw_last.op = "construct"
    /\ Tag(pw_last.stored_hash) = PWD_ALGO
    /\ Dollars(pw_last.stored_hash) = 4
    /\ pw_last.raised = "ValueError"
    /\ ~pw_hash.built

\* The place of a station id in the order of first insertion.
FirstSeenAt(station_id) ==
    CHOOSE i \in 1..Len(first_seen) : first_seen[i] = station_id

\* C20: when several stations are at the same minimal squared distance from
\* the query point, find_nearest_station returns the one met first in the
\* repository's iteration order, which is the one whose station_id was
\* inserted first (since the last clear); given the repository operations
\* made, the result is that one station.  (SpecNearest)
C20_TieGoesToFirstInserted ==
    (nr_last.op = "find_nearest" /\ ~nr_last.is_none) =>
        /\ [i \in 1..Len(repo) |-> repo[i].station_id] = first_seen
        /\ \A i \in 1..Len(repo) :
              (/\ repo[i] # nr_last.station
               /\ SquaredDistance(repo[i], nr_last.lon, nr_last.lat)
                      = SquaredDistance(nr_last.station, nr_last.lon, nr_last.lat))
                  => FirstSeenAt(nr_last.station.station_id)
                         < FirstSeenAt(repo[i].station_id)

\* C20 case: two stations at different places are at the same minimal distance
\* from the query point; the one inserted first, which has the larger id, was
\* returned.
C20_Witness ==
    /\ nr_last.op = "find_nearest"
    /\ Len(repo) >= 2
    /\ nr_last.station = repo[1]
    /\ SquaredDistance(repo[2], nr_last.lon, nr_last.lat)
           = SquaredDistance(repo[1], nr_last.lon, nr_last.lat)
    /\ repo[1].station_id > repo[2].station_id
    /\ repo[1].longitude # repo[2].longitude

\* A row of an electric vehicle that is valid apart from its battery_level,
\* which is missing or any integer.
ElectricRow(header, cells) ==
    /\ ValidVehicleRow(header, cells)
    /\ FieldText(header, cells, "vehicle_type") \in {str_electric_bicycle, str_scooter}

\* The battery level such a row is meant to be loaded with.
ExpectedBattery(header, cells) ==
    IF FieldMissing(header, cells, "battery_level") THEN BatteryMax
    ELSE LET level == ParseInt(FieldText(header, cells, "battery_level")).value
         IN IF level < BatteryMin THEN BatteryMin
            ELSE IF level > BatteryMax THEN BatteryMax
            ELSE level

\* C21: every EBike and Scooter that exists has battery_level in [0,100]; the
\* CSV loader clamps any integer battery_level into the range, so that an
\* out-of-range value never makes a row be skipped, and a missing value
\* becomes 100.  (SpecCsv)
C21_BatteryAlwaysInRange ==
    /\ (vehicle # NoVehicle /\ vehicle.kind \in {"EBike", "Scooter"}) =>
          (BatteryMin <= vehicle.battery_level /\ vehicle.battery_level <= BatteryMax)
    /\ csv_last.op = "load_vehicles_from_csv" =>
          /\ \A j \in 1..Len(csv_last.outcome.entities) :
                csv_last.outcome.entities[j].kind \in {"EBike", "Scooter"} =>
                    /\ BatteryMin <= csv_last.outcome.entities[j].battery_level
                    /\ csv_last.outcome.entities[j].battery_level <= BatteryMax
          /\ \A i \in 1..Len(csv_last.file.rows) :
                ElectricRow(csv_last.file.header, csv_last.file.rows[i]) =>
                    \E j \in 1..Len(csv_last.outcome.entities) :
                        /\ csv_last.outcome.entities[j].vehicle_id =
                               Strip(csv_last.file.rows[i][1])
                        /\ csv_last.outcome.entities[j].kind \in {"EBike", "Scooter"}
                        /\ csv_last.outcome.entities[j].battery_level =
                               ExpectedBattery(csv_last.file.header,
                                               csv_last.file.rows[i])

\* C21 case: the only row of a file is an EBike row that ends before the
\* battery_level column; the load raised instead of giving it 100.
C21_Witness ==
    /\ csv_last.op = "load_vehicles_from_csv"
    /\ csv_last.file.header = HeaderFull
    /\ csv_last.file.rows = <<row_seven_cells>>
    /\ ElectricRow(HeaderFull, row_seven_cells)
    /\ ExpectedBattery(HeaderFull, row_seven_cells) = BatteryMax
    /\ csv_last.outcome.raised = "AttributeError"

\* C21 without the rows that end early: when the load does not raise, every
\* electric row is loaded with its battery clamped.
C21_ClampedWhenLoaded ==
    csv_last.outcome.raised = "none" => C21_BatteryAlwaysInRange

\* C22: complete_maintenance changes only last_maintenance_ride_count, which
\* becomes ride_count; ride_count, battery_level, status and the other fields
\* are as before.  Right afterwards check_maintenance_needed is false for the
\* ride-count reason, and is true exactly for an EBike/Scooter with
\* battery_level < 20 or when a report of the list passed in references the
\* vehicle.  (SpecVehicle)
C22_CompleteMaintenanceFrame ==
    v_last.op = "complete_maintenance" =>
        /\ DOMAIN vehicle = DOMAIN v_last.pre
        /\ vehicle.last_maintenance_ride_count = v_last.pre.ride_count
        /\ \A f \in DOMAIN v_last.pre \ {"last_maintenance_ride_count"} :
              vehicle[f] = v_last.pre[f]
        /\ vehicle.ride_count - vehicle.last_maintenance_ride_count < MaintenanceInterval
        /\ \A reports \in ReportsArgs :
              check_maintenance_needed(vehicle, reports) =
                  (\/ (vehicle.kind \in {"EBike", "Scooter"}
                          /\ vehicle.battery_level < LowBattery)
                   \/ \E i \in 1..Len(reports.items) :
                          ReportMatches(reports.items[i], vehicle.vehicle_id))

\* C22 case: maintenance was due by ride count on an EBike/Scooter whose
\* battery is low; it has been completed and the battery still asks for it.
C22_Witness ==
    /\ v_last.op = "complete_maintenance"
    /\ v_last.pre.ride_count - v_last.pre.last_maintenance_ride_count >= MaintenanceInterval
    /\ vehicle.kind \in {"EBike", "Scooter"}
    /\ vehicle.battery_level < LowBattery
    /\ vehicle.ride_count = v_last.pre.ride_count
    /\ check_maintenance_needed(vehicle, NoneReports)

\* s is an initial segment of t.
IsPrefix(s, t) == Len(s) <= Len(t) /\ SubSeq(t, 1, Len(s)) = s

\* C23: a user's ride_history is append-only and ordered: over start_ride,
\* end_ride, report_vehicle_issue, login and view_ride_history calls the
\* history before a call is a prefix of the history after it and the history
\* seen by an earlier view is a prefix of the present one; its entries are the
\* rides of the successful end_ride calls in call order; and what
\* view_ride_history returned still reads as it did when it was returned.
\* (SpecUser)
C23_HistoryAppendOnly ==
    /\ IsPrefix(u_last.pre.ride_history, user.ride_history)
    /\ user.ride_history = ended
    /\ snapshot.taken =>
          /\ Observed(snapshot) = viewed
          /\ IsPrefix(viewed, user.ride_history)

\* C23 case: a view was taken after the first ride ended; then a login, a
\* second ride and its end followed, and the history has grown past the view.
C23_Witness ==
    /\ snapshot.taken
    /\ Len(viewed) = 1
    /\ Len(user.ride_history) = 2
    /\ user.ride_history[1] # user.ride_history[2]
    /\ u_last.op = "login"

\* C24: in every state of a Ride (constructed with or without end_time,
\* ended, fee calculated) status() is completed if and only if end_time is
\* present, and is_active() is true if and only if status() is in_progress.
\* (SpecRide)
C24_StatusFollowsEndTime ==
    the_ride.built =>
        /\ (Ride_status(the_ride) = "completed") = ~the_ride.end_time.is_none
        /\ Ride_is_active(the_ride) = (Ride_status(the_ride) = "in_progress")

\* C24 case: the fee of a completed ride has been calculated; the ride has an
\* end_time, is completed and is not active.
C24_Witness ==
    /\ the_ride.built
    /\ ride_last.op = "calculate_fee"
    /\ ride_last.pre.status = "completed"
    /\ ~the_ride.end_time.is_none
    /\ the_ride.fee > 0
    /\ ~Ride_is_active(the_ride)

\* C27: Ride.end is one-way and single-shot: it fails if the ride already
\* has an end_time, fails if the end time given is earlier than start_time,
\* leaves the ride as it was when it fails, and when it succeeds sets
\* end_time and makes the status completed; a completed ride is never
\* in_progress again and its end_time never changes.  (SpecRide)
C27_EndIsOneWay ==
    /\ ride_last.op = "end" =>
          /\ ~ride_last.pre.end_time.is_none => ride_last.raised # "none"
          /\ (UtcInstant(IF ride_last.at.is_none THEN NowUtc(ride_last.clock)
                         ELSE ride_last.at)
                 < UtcInstant(ride_last.pre.start_time)) => ride_last.raised # "none"
          /\ ride_last.raised # "none" => the_ride = ride_last.pre
          /\ ride_last.raised = "none" =>
                /\ ~the_ride.end_time.is_none
                /\ UtcInstant(the_ride.end_time) =
                       UtcInstant(IF ride_last.at.is_none THEN NowUtc(ride_last.clock)
                                  ELSE ride_last.at)
                /\ Ride_status(the_ride) = "completed"
    /\ (ride_last.pre.built /\ Ride_status(ride_last.pre) = "completed") =>
          /\ Ride_status(the_ride) = "completed"
          /\ the_ride.end_time = ride_last.pre.end_time

\* C27 case: end was called on a ride that had been ended before; the call
\* failed and the ride kept its end_time.
C27_Witness ==
    /\ ride_last.op = "end"
    /\ ride_last.pre.built
    /\ ride_last.pre.status = "completed"
    /\ ride_last.raised = "ValueError"
    /\ ~ride_last.at.is_none
    /\ UtcInstant(ride_last.at) # UtcInstant(the_ride.end_time)
    /\ UtcInstant(ride_last.at) >= UtcInstant(the_ride.start_time)

\* C25: when two dock calls on the same station are in flight at once, the
\* fullness check and the append of each call being separate steps that may
\* interleave, the number of docked vehicles still never exceeds capacity.
\* (SpecRace)
C25_CapacityUnderInterleaving ==
    \A c \in DockCalls :
        calls[c].pc \in {"idle", "entered", "passed", "raised", "returned"} =>
            Len(station.vehicles) <= station.capacity

\* C25 case: both calls have passed the fullness check while one slot was
\* free; both go on to append.
C25_Witness ==
    /\ calls[1].pc = "passed"
    /\ calls[2].pc = "passed"
    /\ available_slots(station) = 1

\* C26: every failing domain operation leaves the entity as it was: a
\* start_ride while a ride is active is rejected and keeps current_ride (the
\* original ride stays active) and ride_history; an end_ride with no active
\* ride or with another ride is rejected and keeps both; a dock on a full
\* station is rejected and keeps the docked sequence; an undock of a vehicle
\* that is not docked is rejected and keeps the docked sequence.  (SpecDomain)
C26_RejectedLeavesUnchanged ==
    /\ (u_last.op = "start_ride" /\ u_last.pre.current_ride # NoneRide) =>
          /\ u_last.raised
          /\ user.current_ride = u_last.pre.current_ride
          /\ user.ride_history = u_last.pre.ride_history
    /\ (u_last.op = "end_ride"
           /\ (u_last.pre.current_ride = NoneRide
                  \/ u_last.ride.oid # u_last.pre.current_ride.oid)) =>
          /\ u_last.raised
          /\ user.current_ride = u_last.pre.current_ride
          /\ user.ride_history = u_last.pre.ride_history
    /\ (u_last.op \in {"start_ride", "end_ride"} /\ u_last.raised) =>
          user = u_last.pre
    /\ (st_last.op = "dock"
           /\ Len(st_last.pre.vehicles) >= st_last.pre.capacity) =>
          /\ st_last.raised
          /\ station.vehicles = st_last.pre.vehicles
    /\ (st_last.op = "undock"
           /\ \A i \in 1..Len(st_last.pre.vehicles) :
                  st_last.pre.vehicles[i] # st_last.vehicle) =>
          /\ st_last.raised
          /\ station.vehicles = st_last.pre.vehicles
    /\ (st_last.op \in {"dock", "undock"} /\ st_last.raised) =>
          station = st_last.pre

\* C26 case, user: end_ride was called with another ride than the active
\* one, after one ride had been completed; it was rejected.
C26_Witness ==
    /\ u_last.op = "end_ride"
    /\ u_last.raised
    /\ user.current_ride # NoneRide
    /\ u_last.ride # NoneRide
    /\ u_last.ride.ride_id = user.current_ride.ride_id
    /\ Len(user.ride_history) = 1

\* C26 case, station: a dock on a full station holding two vehicles was
\* rejected.
C26_WitnessStation ==
    /\ st_last.op = "dock"
    /\ st_last.raised
    /\ Len(station.vehicles) = 2
    /\ station.capacity = 2

\* No vehicle occurs twice in the sequence.
NoDuplicates(vehicles) ==
    \A i, j \in 1..Len(vehicles) : vehicles[i] = vehicles[j] => i = j

\* C28: after dock and undock calls on a station each vehicle occurs at most
\* once in the docked sequence: a call on a station without duplicates leaves
\* it without duplicates, and docking a vehicle that is already docked does
\* not make a second entry that takes a second slot.  (SpecStation)
C28_DockedAtMostOnce ==
    (st_last.op \in {"dock", "undock"} /\ NoDuplicates(st_last.pre.vehicles)) =>
        NoDuplicates(station.vehicles)

\* C28 case: V1 was docked in a station that held V1 once and had a free
\* slot; the call returned and V1 now takes two slots.
C28_Witness ==
    /\ st_last.op = "dock"
    /\ ~st_last.raised
    /\ st_last.vehicle = "V1"
    /\ st_last.pre.vehicles = <<"V1">>
    /\ station.vehicles = <<"V1", "V1">>
    /\ available_slots(station) = available_slots(st_last.pre) - 1

\* C28 for vehicles that are not docked yet: docking a vehicle the station
\* does not hold, and any undock, keeps a duplicate-free station so.
C28_FreshDockKeepsUnique ==
    (/\ st_last.op \in {"dock", "undock"}
     /\ NoDuplicates(st_last.pre.vehicles)
     /\ (st_last.op = "dock" => ~Contains(st_last.pre.vehicles, st_last.vehicle)))
        => NoDuplicates(station.vehicles)

\* C29: on a station that is not full and does not hold vehicle v, dock(v)
\* followed by undock(v) gives back exactly the docked sequence there was
\* (same vehicles, same order) and the available_slots there were; an
\* undock(v) removes exactly one entry, an entry of v, and keeps the order of
\* the others.  (SpecStation)
C29_DockUndockRoundTrip ==
    /\ (/\ st_last.op = "undock" /\ ~st_last.raised
         /\ st_prev.op = "dock" /\ ~st_prev.raised
         /\ st_prev.vehicle = st_last.vehicle
         /\ \A i \in 1..Len(st_prev.pre.vehicles) :
                st_prev.pre.vehicles[i] # st_prev.vehicle) =>
          /\ station.vehicles = st_prev.pre.vehicles
          /\ available_slots(station) = st_prev.pre.capacity - Len(st_prev.pre.vehicles)
    /\ (st_last.op = "undock" /\ ~st_last.raised) =>
          /\ Len(station.vehicles) = Len(st_last.pre.vehicles) - 1
          /\ \E k \in 1..Len(st_last.pre.vehicles) :
                /\ st_last.pre.vehicles[k] = st_last.vehicle
                /\ \A i \in 1..Len(station.vehicles) :
                      station.vehicles[i] =
                          st_last.pre.vehicles[IF i < k THEN i ELSE i + 1]

\* C29 case: V1 was docked behind V2 and V3 and then undocked; the station
\* holds V2, V3 again.
C29_Witness ==
    /\ st_last.op = "undock" /\ ~st_last.raised
    /\ st_prev.op = "dock" /\ ~st_prev.raised
    /\ st_prev.vehicle = "V1" /\ st_last.vehicle = "V1"
    /\ st_prev.pre.vehicles = <<"V2", "V3">>
    /\ station.vehicles = <<"V2", "V3">>
    /\ station.capacity = 3

====
